---- MODULE Spec2Model ----
(***************************************************************************)
(* A model of the MPEG-4 part of node-taglib-sharp as vendored in          *)
(* dopamine: the box tree (mpeg4Boxes.ts), the Apple tag (appleTag.ts),    *)
(* the file parser (mpeg4FileParser.ts) and the file (mpeg4File.ts).       *)
(*                                                                         *)
(* The specifications share the variables:                                 *)
(*   SpecTag     the Apple tag facade over an ilst box                     *)
(*   SpecParser  the four entry points of Mpeg4FileParser over a file      *)
(*   LiveParser  SpecParser, a traversal that has started running on       *)
(*   SpecWalk    the entry points over files with nested boxes             *)
(*   SpecFile    construction, mutation, save and reopening of Mpeg4File   *)
(*   SpecBox     a udta box, the tag made on it, lookups and rendering     *)
(*   SpecData    chunk-offset boxes and the choice of the udta box         *)
(*                                                                         *)
(* Byte vectors are objects: the source compares box types with === and    *)
(* !==, which is reference identity.  A box type is therefore a record     *)
(* [b, shared]: its bytes and whether the object is the one held by the    *)
(* static table Mpeg4BoxType.  Text is a sequence of one-character         *)
(* strings ("@" stands for the byte 0xA9); binary data is a sequence of    *)
(* bytes.                                                                  *)
(***************************************************************************)
EXTENDS Integers, Sequences, FiniteSets, TLC

VARIABLES
    typesShared,  \* whether a header decoded from the file carries the Mpeg4BoxType object
    ilst,         \* children of the tag's ilst box (annotation boxes, in order)
    last,         \* the most recent tag operation and its outcome
    prev,         \* the operation before it
    nops,         \* number of tag operations performed
    file,         \* the file: the box header that starts at each position
    corrupt,      \* the file's corruption flag and reason
    fields,       \* the fields of the Mpeg4FileParser
    stack,        \* the activations of the traversal that is running
    entry,        \* the entry point called last
    pc,           \* "new", "failed" (constructor threw), "idle", "running"
    thrown,       \* the exception raised by the running or last call, if any
    ncalls,       \* number of entry-point calls made
    first,        \* the first completed call and the fields it left
    mfile,        \* the fields of the Mpeg4File
    mode,         \* the access mode of the file: "Closed" or "Read"
    readStyle,    \* the read style the file is constructed with
    fpc,          \* where the construction of the Mpeg4File stands
    ferr,         \* the exception that left the constructor, if any
    session,      \* the album assigned last, whether it was saved and reopened since
    opens         \* number of times the file was opened

tagVars == <<ilst, last, prev, nops>>

parserVars == <<file, corrupt, fields, stack, entry, pc, thrown, ncalls, first>>

fileVars == <<mfile, mode, readStyle, fpc, ferr, session, opens>>

vars == <<typesShared, ilst, last, prev, nops,
          file, corrupt, fields, stack, entry, pc, thrown, ncalls, first,
          mfile, mode, readStyle, fpc, ferr, session, opens>>

----------------------------------------------------------------------------
(* Bounds *)

\* Tag operations in a run
MaxOps == 2

\* Length of the file, in units of 8 bytes (one plain box header)
FileLen == 3

\* Entry-point calls on one parser
MaxCalls == 3

\* Times the file is opened
MaxOpens == 2

----------------------------------------------------------------------------
(* Byte vectors and box types *)

\* AppleDataBoxFlagType
ContainsData == 0
ContainsText == 1
ForTempo == 21

\* A member of the static table Mpeg4BoxType (one object per entry).
Static(b) == [b |-> b, shared |-> TRUE]

\* A byte vector made on the spot: ByteVector.fromString, fromByteArray.
Fresh(b) == [b |-> b, shared |-> FALSE]

Alb == Static(<<"@", "a", "l", "b">>)
Art == Static(<<"@", "A", "R", "T">>)
Nam == Static(<<"@", "n", "a", "m">>)
Day == Static(<<"@", "d", "a", "y">>)
Trkn == Static(<<"t", "r", "k", "n">>)
Tmpo == Static(<<"t", "m", "p", "o">>)
Cpil == Static(<<"c", "p", "i", "l">>)
DASH == Static(<<"-", "-", "-", "-">>)
Mean == Static(<<"m", "e", "a", "n">>)
Name == Static(<<"n", "a", "m", "e">>)
Data == Static(<<"d", "a", "t", "a">>)
Moov == Static(<<"m", "o", "o", "v">>)
Mdia == Static(<<"m", "d", "i", "a">>)
Minf == Static(<<"m", "i", "n", "f">>)
Stbl == Static(<<"s", "t", "b", "l">>)
Trak == Static(<<"t", "r", "a", "k">>)
Udta == Static(<<"u", "d", "t", "a">>)
Mdat == Static(<<"m", "d", "a", "t">>)
Stco == Static(<<"s", "t", "c", "o">>)
Co64 == Static(<<"c", "o", "6", "4">>)
Stsd == Static(<<"s", "t", "s", "d">>)
Hdlr == Static(<<"h", "d", "l", "r">>)
Mvhd == Static(<<"m", "v", "h", "d">>)
Free == Static(<<"f", "r", "e", "e">>)
Meta == Static(<<"m", "e", "t", "a">>)
Ilst == Static(<<"i", "l", "s", "t">>)
Gen == Static(<<"@", "g", "e", "n">>)
Gnre == Static(<<"g", "n", "r", "e">>)

\* a === b on two byte vectors: the same object.  Two vectors made on the
\* spot are never the same object; a static entry is itself only.
SameObject(a, c) == a.shared /\ c.shared /\ a.b = c.b

\* Mpeg4Utils.fixId followed by makeReadOnly (which returns its receiver).
fixId(id) ==
    IF Len(id.b) = 4 THEN id
    ELSE IF Len(id.b) = 3 THEN Fresh(<<"@">> \o id.b)
    ELSE [b |-> <<>>, shared |-> FALSE]

\* The type object of a header decoded from the file.
DecodedType(b, shared) == [b |-> b, shared |-> shared]

----------------------------------------------------------------------------
(* Text *)

Undefined == [def |-> FALSE, v |-> <<>>]
Val(v) == [def |-> TRUE, v |-> v]

\* JS truthiness of a string | undefined
Truthy(t) == t.def /\ t.v # <<>>

RECURSIVE TrimStart(_)
TrimStart(s) == IF s # <<>> /\ Head(s) = " " THEN TrimStart(Tail(s)) ELSE s

RECURSIVE TrimEnd(_)
TrimEnd(s) ==
    IF s # <<>> /\ s[Len(s)] = " " THEN TrimEnd(SubSeq(s, 1, Len(s) - 1)) ELSE s

\* String.prototype.trim
Trim(s) == TrimEnd(TrimStart(s))

\* String.prototype.split on a one-character separator: "".split(";") is [""]
RECURSIVE SplitAcc(_, _, _)
SplitAcc(s, sep, cur) ==
    IF s = <<>> THEN <<cur>>
    ELSE IF Head(s) = sep THEN <<cur>> \o SplitAcc(Tail(s), sep, <<>>)
    ELSE SplitAcc(Tail(s), sep, Append(cur, Head(s)))

Split(s, sep) == SplitAcc(s, sep, <<>>)

\* Array.prototype.join with "; "
RECURSIVE Join(_)
Join(l) ==
    IF l = <<>> THEN <<>>
    ELSE IF Len(l) = 1 THEN l[1]
    ELSE l[1] \o <<";", " ">> \o Join(Tail(l))

----------------------------------------------------------------------------
(* Numbers in byte vectors *)

\* ByteVector.fromUshort: two bytes, big-endian
fromUshort(v) == <<(v \div 256) % 256, v % 256>>

\* ByteVector.fromInt / fromUint: four bytes, big-endian
fromInt(v) == <<(v \div 16777216) % 256, (v \div 65536) % 256, (v \div 256) % 256, v % 256>>

\* ByteVector.toUint / toUshort: big-endian value of the bytes
RECURSIVE toUint(_)
toUint(bs) == IF bs = <<>> THEN 0 ELSE toUint(SubSeq(bs, 1, Len(bs) - 1)) * 256 + bs[Len(bs)]

\* ByteVector.subarray(offset, length), offset counted from 0
subarray(bs, offset, length) ==
    SubSeq(bs, offset + 1, IF offset + length > Len(bs) THEN Len(bs) ELSE offset + length)

Digits == <<"0", "1", "2", "3", "4", "5", "6", "7", "8", "9">>

IsDigit(c) == \E d \in 1..10 : Digits[d] = c

DigitValue(c) == (CHOOSE d \in 1..10 : Digits[d] = c) - 1

\* Number.prototype.toString of a non-negative integer
RECURSIVE ToDecimal(_)
ToDecimal(n) ==
    IF n < 10 THEN <<Digits[n + 1]>> ELSE Append(ToDecimal(n \div 10), Digits[(n % 10) + 1])

RECURSIVE DigitPrefix(_, _)
DigitPrefix(s, acc) ==
    IF s # <<>> /\ IsDigit(Head(s)) THEN DigitPrefix(Tail(s), acc * 10 + DigitValue(Head(s)))
    ELSE acc

\* Number.parseInt(s, 10): leading blanks skipped, then the longest digit
\* prefix; NaN when there is none.
ParseInt(s) ==
    LET t == TrimStart(s)
    IN IF t # <<>> /\ IsDigit(Head(t)) THEN [nan |-> FALSE, n |-> DigitPrefix(t, 0)]
       ELSE [nan |-> TRUE, n |-> 0]

\* String.prototype.toLowerCase on the letters the model uses
LowerChar(c) == IF c = "I" THEN "i" ELSE IF c = "D" THEN "d" ELSE c

Lower(s) == [i \in 1..Len(s) |-> LowerChar(s[i])]

----------------------------------------------------------------------------
(* Boxes.  An annotation box is [id, type, kids]; id is the identity of   *)
(* the object.  A child of an annotation is [cls, type, flags, data] with *)
(* cls "data" (AppleDataBox) or "info" (AppleAdditionalInfoBox).          *)

\* Outcome of an evaluation that may throw
Ok(v) == [ok |-> TRUE, v |-> v]
TypeError == [ok |-> FALSE, v |-> <<>>]

\* Mpeg4Box.getChild: index of the first child whose type is the object asked for, 0 if none
getChild(children, type) ==
    IF \E i \in 1..Len(children) : SameObject(children[i].type, type)
    THEN CHOOSE i \in 1..Len(children) :
            /\ SameObject(children[i].type, type)
            /\ \A j \in 1..(i - 1) : ~SameObject(children[j].type, type)
    ELSE 0

\* Mpeg4Box.getChildren: the matching children in order; undefined when there is none
SelectSameType(children, type) ==
    LET F[i \in 0..Len(children)] ==
            IF i = 0 THEN <<>>
            ELSE IF SameObject(children[i].type, type) THEN Append(F[i - 1], children[i])
            ELSE F[i - 1]
    IN F[Len(children)]

getChildren(children, type) ==
    IF SelectSameType(children, type) = <<>> THEN Undefined ELSE Val(SelectSameType(children, type))

\* Array.prototype.indexOf on boxes (object identity), 0 if absent
indexOf(children, id) ==
    IF \E i \in 1..Len(children) : children[i].id = id
    THEN CHOOSE i \in 1..Len(children) :
            children[i].id = id /\ \A j \in 1..(i - 1) : children[j].id # id
    ELSE 0

\* Array.prototype.splice(index, 1)
splice1(children, index) ==
    SubSeq(children, 1, index - 1) \o SubSeq(children, index + 1, Len(children))

\* Mpeg4Box.removeChildByType: for (const box of this.children) with a splice
\* inside the loop; the array iterator moves on to the next index after the
\* splice has shifted the rest down by one.
RECURSIVE removeLoop(_, _, _)
removeLoop(children, i, type) ==
    IF i > Len(children) THEN children
    ELSE IF SameObject(children[i].type, type)
         THEN LET index == indexOf(children, children[i].id)
              IN removeLoop(IF index > 0 THEN splice1(children, index) ELSE children, i + 1, type)
         ELSE removeLoop(children, i + 1, type)

removeChildByType(children, type) == removeLoop(children, 1, type)

\* Mpeg4Box.removeChildByBox
removeChildByBox(children, id) ==
    IF indexOf(children, id) > 0 THEN splice1(children, indexOf(children, id)) ELSE children

\* The identity of a newly constructed box: one no box of the list has
NewId(children) == CHOOSE n \in 1..(Len(children) + 1) : \A i \in 1..Len(children) : children[i].id # n

----------------------------------------------------------------------------
(* Apple data boxes *)

\* AppleDataBox.fromDataAndFlags: the box gets a "data" type made on the
\* spot, version 0 and the flags; the data argument is not stored.
AppleDataBox_fromDataAndFlags(data, flags) ==
    [cls |-> "data", type |-> Fresh(<<"d", "a", "t", "a">>), flags |-> flags, data |-> Undefined]

\* AppleDataBox.text (getter): flags & ContainsText, then data.toString(UTF8);
\* data.toString on a box whose data was never assigned throws.
AppleDataBox_text(box) ==
    IF box.flags % 2 # 0
    THEN (IF box.data.def THEN Ok(Val(box.data.v)) ELSE TypeError)
    ELSE Ok(Undefined)

\* AppleDataBox.text (setter)
AppleDataBox_setText(box, v) == [box EXCEPT !.flags = ContainsText, !.data = Val(v)]

\* AppleAdditionalInfoBox.fromTypeVersionAndFlags followed by the text setter
AppleAdditionalInfoBox_withText(type, flags, text) ==
    [cls |-> "info", type |-> type, flags |-> flags, data |-> Val(text)]

\* AppleAnnotationBox.fromType
AppleAnnotationBox_fromType(id, type) == [id |-> id, type |-> type, kids |-> <<>>]

\* The children of an annotation that are instances of AppleDataBox
DataKids(kids) ==
    LET F[i \in 0..Len(kids)] ==
            IF i = 0 THEN <<>>
            ELSE IF kids[i].cls = "data" THEN Append(F[i - 1], kids[i]) ELSE F[i - 1]
    IN F[Len(kids)]

----------------------------------------------------------------------------
(* AppleTag: readers *)

\* AppleTag.dataBoxesFromTypes with a single type: the data boxes of the
\* first annotation whose type object is the (fixed) type asked for; the
\* function falls off its end, returning undefined, when no annotation matches.
dataBoxesFromTypes(il, type) ==
    LET i == getChild(il, fixId(type))
    IN IF i = 0 THEN Undefined ELSE Val(DataKids(il[i].kids))

TrimAll(parts) == [i \in 1..Len(parts) |-> Trim(parts[i])]

\* AppleTag.getText: for (const box of <undefined>) throws a TypeError
RECURSIVE getTextLoop(_, _)
getTextLoop(boxes, result) ==
    IF boxes = <<>> THEN Ok(result)
    ELSE LET t == AppleDataBox_text(Head(boxes))
         IN IF ~t.ok THEN TypeError
            ELSE IF ~t.v.def THEN getTextLoop(Tail(boxes), result)
            ELSE getTextLoop(Tail(boxes), result \o TrimAll(Split(t.v.v, ";")))

getText(il, type) ==
    LET boxes == dataBoxesFromTypes(il, type)
    IN IF ~boxes.def THEN TypeError ELSE getTextLoop(boxes.v, <<>>)

\* album and the other single text fields read through getText
FirstText(il, type) ==
    LET text == getText(il, type)
    IN IF ~text.ok THEN TypeError
       ELSE IF Len(text.v) = 0 THEN Ok(Undefined) ELSE Ok(Val(text.v[1]))

\* AppleTag.year (getter)
RECURSIVE yearLoop(_)
yearLoop(boxes) ==
    IF boxes = <<>> THEN Ok(0)
    ELSE LET t == AppleDataBox_text(Head(boxes))
         IN IF ~t.ok THEN TypeError
            ELSE IF ~t.v.def THEN yearLoop(Tail(boxes))
            ELSE LET four == IF Len(t.v.v) > 4 THEN SubSeq(t.v.v, 1, 4) ELSE t.v.v
                     value == ParseInt(four)
                 IN IF ~value.nan THEN Ok(value.n) ELSE yearLoop(Tail(boxes))

year(il) ==
    LET boxes == dataBoxesFromTypes(il, Day)
    IN IF ~boxes.def THEN TypeError ELSE yearLoop(boxes.v)

\* AppleTag.track, trackCount, disc, discCount (getters): the 16-bit field at
\* byte offset `at` of the first data box with flags ContainsData that is long enough
RECURSIVE pairLoop(_, _)
pairLoop(boxes, at) ==
    IF boxes = <<>> THEN Ok(0)
    ELSE LET box == Head(boxes)
         IN IF box.flags # ContainsData THEN pairLoop(Tail(boxes), at)
            ELSE IF ~box.data.def THEN TypeError
            ELSE IF Len(box.data.v) >= at + 2 THEN Ok(toUint(subarray(box.data.v, at, 2)))
            ELSE pairLoop(Tail(boxes), at)

track(il) ==
    LET boxes == dataBoxesFromTypes(il, Trkn)
    IN IF ~boxes.def THEN TypeError ELSE pairLoop(boxes.v, 2)

trackCount(il) ==
    LET boxes == dataBoxesFromTypes(il, Trkn)
    IN IF ~boxes.def THEN TypeError ELSE pairLoop(boxes.v, 4)

\* AppleTag.beatsPerMinute (getter)
RECURSIVE tempoLoop(_)
tempoLoop(boxes) ==
    IF boxes = <<>> THEN Ok(0)
    ELSE LET box == Head(boxes)
         IN IF box.flags # ForTempo THEN tempoLoop(Tail(boxes))
            ELSE IF ~box.data.def THEN TypeError
            ELSE Ok(toUint(box.data.v))

beatsPerMinute(il) ==
    LET boxes == dataBoxesFromTypes(il, Tmpo)
    IN IF ~boxes.def THEN TypeError ELSE tempoLoop(boxes.v)

\* AppleTag.isCompilation (getter)
isCompilation(il) ==
    LET boxes == dataBoxesFromTypes(il, Cpil)
    IN IF ~boxes.def THEN TypeError
       ELSE IF boxes.v = <<>> THEN Ok(FALSE)
       ELSE IF ~boxes.v[1].data.def THEN TypeError
       ELSE Ok(toUint(boxes.v[1].data.v) # 0)

\* Genres.indexToAudio: the name of an ID3v1 genre, of which the model uses
\* 13 ("Pop", abbreviated) and 17 ("Rock", abbreviated); undefined outside the table
Genres_indexToAudio(index) ==
    IF index = 13 THEN Val(<<"P">>) ELSE IF index = 17 THEN Val(<<"R">>) ELSE Undefined

\* AppleTag.genres (getter): the text atom first, then the gnre atom, which
\* holds the ID3v1 index plus 1
RECURSIVE genreLoop(_, _)
genreLoop(boxes, text) ==
    IF boxes = <<>> THEN Ok(text)
    ELSE LET box == Head(boxes)
         IN IF box.flags # ContainsData THEN genreLoop(Tail(boxes), text)
            ELSE IF ~box.data.def THEN TypeError
            ELSE IF toUint(box.data.v) = 0 THEN genreLoop(Tail(boxes), text)
            ELSE IF ~Genres_indexToAudio(toUint(box.data.v) - 1).def THEN genreLoop(Tail(boxes), text)
            ELSE Ok(<<Genres_indexToAudio(toUint(box.data.v) - 1).v>>)

genres(il) ==
    LET text == getText(il, Gen)
        boxes == dataBoxesFromTypes(il, Gnre)
    IN IF ~text.ok THEN TypeError
       ELSE IF Len(text.v) > 0 THEN text
       ELSE IF ~boxes.def THEN TypeError
       ELSE genreLoop(boxes.v, text.v)

\* AppleTag.isEmpty: !ilst.hasChildren
isEmpty(il) == ~(Len(il) > 0)

----------------------------------------------------------------------------
(* AppleTag: writers.  A writer yields [ok, il]: whether it returned      *)
(* normally and the children of the ilst afterwards.                      *)

Done(il) == [ok |-> TRUE, il |-> il]
Thrown(il) == [ok |-> FALSE, il |-> il]

\* AppleTag.clearData
clearData(il, type) == removeChildByType(il, fixId(type))

\* Assignment to the children of the annotation object `id`: every place of
\* the list that holds the object shows it.
SetKids(il, id, kids) ==
    [i \in 1..Len(il) |-> IF il[i].id = id THEN [il[i] EXCEPT !.kids = kids] ELSE il[i]]

\* AppleTag.setDataFromTypeAndBoxes: every annotation of the type loses its
\* children, the first one gets the boxes; with no such annotation a new one
\* is appended.
RECURSIVE setDataLoop(_, _, _, _, _)
setDataLoop(il, i, t, boxes, added) ==
    IF i > Len(il) THEN [il |-> il, added |-> added]
    ELSE IF SameObject(il[i].type, t)
         THEN LET cleared == SetKids(il, il[i].id, <<>>)
              IN IF added THEN setDataLoop(cleared, i + 1, t, boxes, TRUE)
                 ELSE setDataLoop(SetKids(cleared, il[i].id, boxes), i + 1, t, boxes, TRUE)
         ELSE setDataLoop(il, i + 1, t, boxes, added)

setDataFromTypeAndBoxes(il, type, boxes) ==
    LET t == fixId(type)
        r == setDataLoop(il, 1, t, boxes, FALSE)
    IN IF r.added THEN r.il
       ELSE Append(il, [AppleAnnotationBox_fromType(NewId(il), t) EXCEPT !.kids = boxes])

\* AppleTag.setDataFromTypeDataCollectionAndFlags
setDataFromTypeDataCollectionAndFlags(il, type, dataCollection, flags) ==
    IF Len(dataCollection) = 0 THEN clearData(il, type)
    ELSE setDataFromTypeAndBoxes(il, type,
            [i \in 1..Len(dataCollection) |-> AppleDataBox_fromDataAndFlags(dataCollection[i], flags)])

\* AppleTag.setDataFromTypeDataAndFlags
setDataFromTypeDataAndFlags(il, type, data, flags) ==
    IF Len(data) = 0 THEN clearData(il, type)
    ELSE setDataFromTypeDataCollectionAndFlags(il, type, <<data>>, flags)

\* AppleTag.setTextFromTypeAndText; text is a string or undefined
setTextFromTypeAndText(il, type, text) ==
    IF ~Truthy(text) THEN removeChildByType(il, fixId(type))
    ELSE setDataFromTypeDataCollectionAndFlags(il, type, <<text.v>>, ContainsText)

\* AppleTag.setTextFromTypeAndTextCollection; the collection is a list or undefined
setTextFromTypeAndTextCollection(il, type, textCollection) ==
    IF ~textCollection.def THEN removeChildByType(il, fixId(type))
    ELSE setTextFromTypeAndText(il, type, Val(Join(textCollection.v)))

\* AppleTag.genres (setter)
setGenres(il, v) == setTextFromTypeAndTextCollection(clearData(il, Gnre), Gen, v)

\* AppleTag.year (setter)
setYear(il, v) ==
    IF v = 0 THEN clearData(il, Day) ELSE setTextFromTypeAndText(il, Day, Val(ToDecimal(v)))

\* The payload of trkn and disk: {0, index, total, 0} as 16-bit fields
PairData(index, total) == fromUshort(0) \o fromUshort(index) \o fromUshort(total) \o fromUshort(0)

\* AppleTag.track (setter): reads trackCount first
setTrack(il, v) ==
    LET count == trackCount(il)
    IN IF ~count.ok THEN Thrown(il)
       ELSE IF v = 0 /\ count.v = 0 THEN Done(clearData(il, Trkn))
       ELSE Done(setDataFromTypeDataAndFlags(il, Trkn, PairData(v, count.v), ContainsData))

\* AppleTag.trackCount (setter): reads track first
setTrackCount(il, v) ==
    LET localTrack == track(il)
    IN IF ~localTrack.ok THEN Thrown(il)
       ELSE IF v = 0 /\ localTrack.v = 0 THEN Done(clearData(il, Trkn))
       ELSE Done(setDataFromTypeDataAndFlags(il, Trkn, PairData(localTrack.v, v), ContainsData))

\* AppleTag.beatsPerMinute (setter)
setBeatsPerMinute(il, v) ==
    IF v = 0 THEN clearData(il, Tmpo)
    ELSE setDataFromTypeDataAndFlags(il, Tmpo, fromUshort(v), ForTempo)

\* AppleTag.isCompilation (setter)
setIsCompilation(il, v) ==
    setDataFromTypeDataAndFlags(il, Cpil, fromInt(IF v THEN 1 ELSE 0), ForTempo)

----------------------------------------------------------------------------
(* AppleTag: dash atoms *)

\* AppleAdditionalInfoBox.text (getter)
InfoText(box) == box.data.v

\* The test shared by getDashAtom, getDashAtoms and getParentDashBox: the
\* annotation is a "----" box whose mean and name children are found and match;
\* getParentDashBox compares the name exactly, the other two ignoring case.
DashMatches(box, meanstring, namestring, ignoreCase) ==
    /\ SameObject(box.type, DASH)
    /\ getChild(box.kids, Mean) > 0
    /\ getChild(box.kids, Name) > 0
    /\ InfoText(box.kids[getChild(box.kids, Mean)]) = meanstring
    /\ IF ignoreCase
       THEN Lower(InfoText(box.kids[getChild(box.kids, Name)])) = Lower(namestring)
       ELSE InfoText(box.kids[getChild(box.kids, Name)]) = namestring

DashIndex(il, meanstring, namestring, ignoreCase) ==
    IF \E i \in 1..Len(il) : DashMatches(il[i], meanstring, namestring, ignoreCase)
    THEN CHOOSE i \in 1..Len(il) :
            /\ DashMatches(il[i], meanstring, namestring, ignoreCase)
            /\ \A j \in 1..(i - 1) : ~DashMatches(il[j], meanstring, namestring, ignoreCase)
    ELSE 0

\* AppleTag.getDashAtom: [box, kid], the place of the data box, or undefined
getDashAtom(il, meanstring, namestring) ==
    LET i == DashIndex(il, meanstring, namestring, TRUE)
    IN IF i = 0 THEN Undefined
       ELSE IF getChild(il[i].kids, Data) = 0 THEN Undefined
       ELSE Val([box |-> i, kid |-> getChild(il[i].kids, Data)])

\* AppleTag.getDashAtoms: box.getChildren(Data).map(...) throws when
\* getChildren returns undefined
getDashAtoms(il, meanstring, namestring) ==
    LET i == DashIndex(il, meanstring, namestring, TRUE)
    IN IF i = 0 THEN Ok(Undefined)
       ELSE IF ~getChildren(il[i].kids, Data).def THEN TypeError
       ELSE Ok(getChildren(il[i].kids, Data))

\* AppleTag.getParentDashBox: index of the annotation, 0 when undefined
getParentDashBox(il, meanstring, namestring) == DashIndex(il, meanstring, namestring, FALSE)

\* AppleTag.getDashBox
getDashBox(il, meanstring, namestring) ==
    LET data_boxes == getDashAtoms(il, meanstring, namestring)
    IN IF ~data_boxes.ok THEN TypeError
       ELSE IF ~data_boxes.v.def THEN Ok(Undefined)
       ELSE LET t == AppleDataBox_text(data_boxes.v.v[1])
            IN IF ~t.ok THEN TypeError ELSE Ok(t.v)

\* The annotation setDashBox appends: mean, name and data children
NewDashBox(id, meanstring, namestring, datastring) ==
    [AppleAnnotationBox_fromType(id, DASH) EXCEPT !.kids =
        << AppleAdditionalInfoBox_withText(Mean, 1, meanstring),
           AppleAdditionalInfoBox_withText(Name, 1, namestring),
           AppleDataBox_setText(AppleDataBox_fromDataAndFlags(Data.b, 1), datastring) >>]

\* AppleTag.setDashBox; datastring is a string
setDashBox(il, meanstring, namestring, datastring) ==
    LET data_box == getDashAtom(il, meanstring, namestring)
        dash_box == getParentDashBox(il, meanstring, namestring)
    IN IF data_box.def /\ datastring = <<>>
       THEN (IF dash_box = 0 THEN Thrown(il)
             ELSE Done(removeChildByBox(SetKids(il, il[dash_box].id, <<>>), il[dash_box].id)))
       ELSE IF data_box.def
       THEN Done(SetKids(il, il[data_box.v.box].id,
                    [il[data_box.v.box].kids EXCEPT ![data_box.v.kid] =
                        AppleDataBox_setText(il[data_box.v.box].kids[data_box.v.kid], datastring)]))
       ELSE Done(Append(il, NewDashBox(NewId(il), meanstring, namestring, datastring)))

\* Array.prototype.join with a one-character separator; an undefined
\* element is joined as the empty string
RECURSIVE JoinOn(_, _)
JoinOn(l, sep) ==
    IF l = <<>> THEN <<>>
    ELSE IF Len(l) = 1 THEN l[1].v
    ELSE l[1].v \o <<sep>> \o JoinOn(Tail(l), sep)

\* The texts of a list of data boxes: for (const data_box of data_boxes) box_text.push(data_box.text)
RECURSIVE TextsOf(_)
TextsOf(boxes) ==
    IF boxes = <<>> THEN Ok(<<>>)
    ELSE LET t == AppleDataBox_text(Head(boxes))
             rest == TextsOf(Tail(boxes))
         IN IF ~t.ok \/ ~rest.ok THEN TypeError ELSE Ok(<<t.v>> \o rest.v)

\* AppleTag.getDashBoxes
getDashBoxes(il, meanstring, namestring) ==
    LET data_boxes == getDashAtoms(il, meanstring, namestring)
    IN IF ~data_boxes.ok THEN TypeError
       ELSE IF ~data_boxes.v.def THEN Ok(Undefined)
       ELSE IF ~TextsOf(data_boxes.v.v).ok THEN TypeError
       ELSE Ok(Val(TextsOf(data_boxes.v.v).v))

\* data_boxes[i].text = datastring[i] on the children getChildren(Data) gave
RECURSIVE SetTexts(_, _, _)
SetTexts(kids, k, datastring) ==
    IF k > Len(kids) THEN kids
    ELSE IF SameObject(kids[k].type, Data)
         THEN SetTexts([kids EXCEPT ![k] = AppleDataBox_setText(@, Head(datastring))], k + 1, Tail(datastring))
         ELSE SetTexts(kids, k + 1, datastring)

\* The loop of setDashBoxes: every text adds a mean, a name and a data box to
\* the one whole_box and adds whole_box to the ilst
RECURSIVE WholeBoxKids(_, _, _)
WholeBoxKids(meanstring, namestring, datastring) ==
    IF datastring = <<>> THEN <<>>
    ELSE NewDashBox(0, meanstring, namestring, Head(datastring)).kids
            \o WholeBoxKids(meanstring, namestring, Tail(datastring))

\* AppleTag.setDashBoxes; datastring is a list of strings
setDashBoxes(il, meanstring, namestring, datastring) ==
    LET data_boxes == getDashAtoms(il, meanstring, namestring)
        dash_box == getParentDashBox(il, meanstring, namestring)
        at == DashIndex(il, meanstring, namestring, TRUE)
        removed == IF dash_box = 0 THEN il
                   ELSE removeChildByBox(SetKids(il, il[dash_box].id, <<>>), il[dash_box].id)
        whole_box == [AppleAnnotationBox_fromType(NewId(removed), DASH) EXCEPT
                         !.kids = WholeBoxKids(meanstring, namestring, datastring)]
    IN IF ~data_boxes.ok THEN Thrown(il)
       ELSE IF data_boxes.v.def /\ datastring[1] = <<>>
       THEN (IF dash_box = 0 THEN Thrown(il) ELSE Done(removed))
       ELSE IF data_boxes.v.def /\ Len(data_boxes.v.v) = Len(datastring)
       THEN Done(SetKids(il, il[at].id, SetTexts(il[at].kids, 1, datastring)))
       ELSE Done(removed \o [i \in 1..Len(datastring) |-> whole_box])

----------------------------------------------------------------------------
(* The fields of the tag that the model exercises *)

\* "com.apple.iTunes" and "MusicBrainz Track Id", abbreviated
ITunes == <<"c", "o", "m">>
TrackIdName == <<"I", "d">>

\* "MusicBrainz Artist Id", abbreviated
ArtistIdName == <<"A", "I", "d">>

\* AppleTag.musicBrainzArtistId (getter)
musicBrainzArtistId(il) ==
    LET artistIds == getDashBoxes(il, ITunes, ArtistIdName)
    IN IF ~artistIds.ok THEN TypeError
       ELSE IF ~artistIds.v.def THEN Ok(Undefined)
       ELSE Ok(Val(JoinOn(artistIds.v.v, "/")))

\* AppleTag.musicBrainzArtistId (setter)
setMusicBrainzArtistId(il, v) ==
    setDashBoxes(il, ITunes, ArtistIdName, Split(v, "/"))

TextFields == {"album", "performers"}
NumberFields == {"year", "track", "trackCount", "beatsPerMinute"}
DashFields == {"musicBrainzTrackId"}
DashListFields == {"musicBrainzArtistId"}
Fields == TextFields \cup NumberFields \cup DashFields \cup DashListFields \cup {"isCompilation", "genres"}

\* The box type a field is stored under
FieldType(f) ==
    CASE f = "album" -> Alb
      [] f = "performers" -> Art
      [] f = "year" -> Day
      [] f \in {"track", "trackCount"} -> Trkn
      [] f = "beatsPerMinute" -> Tmpo
      [] f = "isCompilation" -> Cpil
      [] f = "genres" -> Gen
      [] OTHER -> DASH

\* The property getters
GetField(f, il) ==
    CASE f = "album" -> FirstText(il, Alb)
      [] f = "performers" -> getText(il, Art)
      [] f = "year" -> year(il)
      [] f = "track" -> track(il)
      [] f = "trackCount" -> trackCount(il)
      [] f = "beatsPerMinute" -> beatsPerMinute(il)
      [] f = "isCompilation" -> isCompilation(il)
      [] f = "musicBrainzArtistId" -> musicBrainzArtistId(il)
      [] f = "genres" -> genres(il)
      [] OTHER -> getDashBox(il, ITunes, TrackIdName)

\* The property setters
SetField(f, il, v) ==
    CASE f = "album" -> Done(setTextFromTypeAndText(il, Alb, v))
      [] f = "performers" -> Done(setTextFromTypeAndTextCollection(il, Art, v))
      [] f = "year" -> Done(setYear(il, v))
      [] f = "track" -> setTrack(il, v)
      [] f = "trackCount" -> setTrackCount(il, v)
      [] f = "beatsPerMinute" -> Done(setBeatsPerMinute(il, v))
      [] f = "isCompilation" -> Done(setIsCompilation(il, v))
      [] f = "musicBrainzArtistId" -> setMusicBrainzArtistId(il, v)
      [] f = "genres" -> Done(setGenres(il, v))
      [] OTHER -> setDashBox(il, ITunes, TrackIdName, v)

\* The values the model assigns
FieldArgs(f) ==
    CASE f = "album" -> {Undefined, Val(<<>>), Val(<<"a">>), Val(<<" ", "a", ";", "b">>)}
      [] f = "performers" -> {Undefined, Val(<<>>), Val(<< <<"a">> >>), Val(<< <<"a">>, <<"b", " ">> >>)}
      [] f = "year" -> {0, 7, 12345}
      [] f = "track" -> {0, 3}
      [] f = "trackCount" -> {0, 12}
      [] f = "beatsPerMinute" -> {0, 300}
      [] f = "isCompilation" -> {TRUE, FALSE}
      [] f = "musicBrainzArtistId" -> {<<>>, <<"a">>, <<"a", "/", "b">>}
      [] f = "genres" -> {Undefined, Val(<< <<"R">> >>), Val(<< <<"R">>, <<"P">> >>)}
      [] OTHER -> {<<>>, <<"a">>}

\* Whether an assigned value asks for the field to be removed
IsClearing(f, v) ==
    CASE f \in TextFields -> ~v.def \/ v.v = <<>>
      [] f \in NumberFields -> v = 0
      [] f \in DashFields -> v = <<>>
      [] OTHER -> FALSE

\* What a getter returns for a field that is not there
AbsentValue(f) ==
    CASE f = "album" -> Undefined
      [] f = "performers" -> <<>>
      [] f = "genres" -> <<>>
      [] f \in NumberFields -> 0
      [] f = "isCompilation" -> FALSE
      [] OTHER -> Undefined

\* What reading a text field gives after v was assigned, by the contract:
\* the text itself; for a list field, the joined text split on ";" and trimmed
ExpectedAfterSet(f, v) ==
    IF f = "performers" THEN TrimAll(Split(Join(v.v), ";")) ELSE v

\* Whether the bytes of the ilst hold the field: an annotation with the 4 type
\* bytes of the field (for a dash field, with its mean, and its name up to
\* letter case, as well)
HoldsDash(box, meanstring, namestring) ==
    /\ box.type.b = DASH.b
    /\ \E i \in 1..Len(box.kids) : box.kids[i].type.b = Mean.b /\ box.kids[i].data.v = meanstring
    /\ \E i \in 1..Len(box.kids) :
          box.kids[i].type.b = Name.b /\ Lower(box.kids[i].data.v) = Lower(namestring)

HasField(il, f) ==
    IF f \in DashFields
    THEN \E i \in 1..Len(il) : HoldsDash(il[i], ITunes, TrackIdName)
    ELSE IF f \in DashListFields
    THEN \E i \in 1..Len(il) : HoldsDash(il[i], ITunes, ArtistIdName)
    ELSE \E i \in 1..Len(il) : il[i].type.b = FieldType(f).b

\* The children of the ilst that are not of a type, in order
WithoutType(il, type) ==
    LET F[i \in 0..Len(il)] ==
            IF i = 0 THEN <<>>
            ELSE IF il[i].type.b = type.b THEN F[i - 1] ELSE Append(F[i - 1], il[i])
    IN F[Len(il)]

----------------------------------------------------------------------------
(* The file and its box headers *)

\* The file is taken in units of 8 bytes.  file[p] is what the bytes from
\* position p say when read as a box header: the 32-bit size field
\* ("size" n: n units; "eof": the field is 0; "large" n: the field is 1 and
\* the 64-bit size that follows is n units) and the four type bytes.
SizeFields == {[kind |-> "size", n |-> 1], [kind |-> "size", n |-> 2],
               [kind |-> "eof", n |-> 0],
               [kind |-> "large", n |-> 0], [kind |-> "large", n |-> 1]}

FileTypes == {Moov.b, Udta.b, Mdat.b, Stco.b, Mvhd.b, Free.b}

Cells == {[size |-> sz, type |-> t] : sz \in SizeFields, t \in FileTypes}

FtypCell == [size |-> [kind |-> "size", n |-> 1], type |-> <<"f", "t", "y", "p">>]

\* File.length, in units of 8 bytes
FileLength(f) == Cardinality(DOMAIN f)

\* An Error object with its message
Error(message) == [message |-> message]

\* e.<name> on an Error object: only "message" is a property of it
ErrorProp(e, name) == IF name = "message" THEN Val(e.message) ELSE Undefined

\* Mpeg4BoxHeader.fromFileAndPosition: plain header of 8 bytes; size field 1
\* means a 64-bit size follows (header of 16 bytes); size field 0 means the
\* box runs to the end of the file.  A header that the file has not the
\* bytes for cannot be read.
Mpeg4BoxHeader_fromFileAndPosition(f, shared, position) ==
    IF position < 0 \/ position >= FileLength(f)
    THEN [ok |-> FALSE, e |-> Error("not enough data")]
    ELSE LET cell == f[position]
         IN IF cell.size.kind = "large" /\ position + 2 > FileLength(f)
            THEN [ok |-> FALSE, e |-> Error("not enough data")]
            ELSE [ok |-> TRUE,
                  position |-> position,
                  boxType |-> DecodedType(cell.type, shared),
                  headerSize |-> IF cell.size.kind = "large" THEN 2 ELSE 1,
                  totalBoxSize |-> IF cell.size.kind = "eof" THEN FileLength(f) - position
                                   ELSE cell.size.n]

\* Mpeg4BoxFactory.createBoxFromFileHeaderAndHandler: the box at the header,
\* with the handler that applies to it
createBox(header, handler) == [position |-> header.position, handler |-> handler]

\* File.markAsCorrupt
markAsCorrupt(reason) == [is |-> TRUE, reason |-> reason]

NotCorrupt == [is |-> FALSE, reason |-> Undefined]

----------------------------------------------------------------------------
(* Mpeg4FileParser *)

EntryPoints == {"parseBoxHeaders", "parseTag", "parseTagAndProperties", "parseChunkOffsets"}

\* No handler, no box
None == -1

\* The field initialisers of the class
NewFields ==
    [mvhd_box |-> None, mvhd_handler |-> None, udta_boxes |-> <<>>, moov_tree |-> Undefined,
     udta_tree |-> Undefined, stco_boxes |-> <<>>, stsd_boxes |-> <<>>,
     mdat_start |-> -1, mdat_end |-> -1]

\* A reset that leaves the collected boxes in place
resetFields_keepingBoxes(fs) ==
    [fs EXCEPT !.mvhd_box = None, !.mvhd_handler = None, !.moov_tree = Undefined,
               !.udta_tree = Undefined, !.mdat_start = -1, !.mdat_end = -1]

\* Mpeg4FileParser.resetFields
resetFields(fs) ==
    [fs EXCEPT !.mvhd_box = None, !.mvhd_handler = None, !.udta_boxes = <<>>,
               !.moov_tree = Undefined, !.udta_tree = Undefined, !.stco_boxes = <<>>,
               !.stsd_boxes = <<>>, !.mdat_start = -1, !.mdat_end = -1]

\* Mpeg4FileParser.addParent (parents undefined or a list: the same result)
addParent(parents, current) == Append(parents, current.position)

\* A constructor without the check of the first box
ConstructorThrows_never(f, shared) == FALSE

\* The constructor: reads the first header and compares its type as text
ConstructorThrows(f, shared) ==
    LET h == Mpeg4BoxHeader_fromFileAndPosition(f, shared, 0)
    IN ~h.ok \/ h.boxType.b # <<"f", "t", "y", "p">>

IsContainer(t) ==
    SameObject(t, Mdia) \/ SameObject(t, Minf) \/ SameObject(t, Stbl) \/ SameObject(t, Trak)

\* An activation of one of the four traversals: the loop variable, the end
\* of the range, the parents and the handler that apply.  total is None at
\* the head of the loop and the totalBoxSize of the current header while a
\* call made for that header runs: the recursive call, or (making = "udta")
\* the creation of the udta box, which loads its children and leaves them
\* in got.
Frame(start, end, handler, parents) ==
    [kind |-> "parse", position |-> start, end |-> end, handler |-> handler, parents |-> parents,
     total |-> None, making |-> "", children |-> <<>>, got |-> <<>>]

\* An activation of Mpeg4Box.loadChildren: children is the list built so
\* far; total is the size of the child being created while its own children
\* are loaded, which are then left in got.
LoadFrame(start, end, handler) ==
    [kind |-> "load", position |-> start, end |-> end, handler |-> handler, parents |-> <<>>,
     total |-> None, making |-> "", children |-> <<>>, got |-> <<>>]

\* Mpeg4BoxFactory: the types whose box is a container that loads its children
LoadsChildren(type) ==
    type.b \in {Moov.b, Mdia.b, Minf.b, Stbl.b, Trak.b, Udta.b, Meta.b, Ilst.b}

\* A box created while loading children
ChildBox(header, children) ==
    [position |-> header.position, type |-> header.boxType, children |-> children]

\* What one iteration does with the header it read: whether it goes on to
\* the next header ("next"), calls itself on the box ("recurse") or creates
\* the udta box ("load"); the fields and the handler afterwards; the parents
\* passed to the recursive call.
Visit(does, fs, handler, parents) ==
    [does |-> does, fields |-> fs, handler |-> handler, parents |-> parents]

SetMdat(fs, header) ==
    [fs EXCEPT !.mdat_start = header.position, !.mdat_end = header.position + header.totalBoxSize]

\* The udta box made by IsoUserDataBox.fromHeaderFileAndHandler, with the
\* parent tree the parser gives it
UdtaBox(header, handler, parents, children) ==
    [position |-> header.position, type |-> header.boxType, handler |-> handler,
     parentTree |-> addParent(parents, header), children |-> children]

\* Body of the loop of parseBoxHeadersFromStartEndAndParents
parseBoxHeadersBody(fs, fr, header) ==
    IF ~fs.moov_tree.def /\ SameObject(header.boxType, Moov)
    THEN LET new_parents == addParent(fr.parents, header)
         IN Visit("recurse", [fs EXCEPT !.moov_tree = Val(new_parents)], fr.handler, new_parents)
    ELSE IF IsContainer(header.boxType)
    THEN Visit("recurse", fs, fr.handler, addParent(fr.parents, header))
    ELSE IF ~fs.udta_tree.def /\ SameObject(header.boxType, Udta)
    THEN Visit("next", [fs EXCEPT !.udta_tree = Val(addParent(fr.parents, header))], fr.handler, fr.parents)
    ELSE IF SameObject(header.boxType, Mdat)
    THEN Visit("next", SetMdat(fs, header), fr.handler, fr.parents)
    ELSE Visit("next", fs, fr.handler, fr.parents)

\* Body of the loop of parseTagFromStartEndAndParents
parseTagBody(fs, fr, header) ==
    IF SameObject(header.boxType, Moov) \/ IsContainer(header.boxType)
    THEN Visit("recurse", fs, fr.handler, addParent(fr.parents, header))
    ELSE IF SameObject(header.boxType, Udta)
    THEN Visit("load", fs, fr.handler, fr.parents)
    ELSE IF SameObject(header.boxType, Mdat)
    THEN Visit("next", SetMdat(fs, header), fr.handler, fr.parents)
    ELSE Visit("next", fs, fr.handler, fr.parents)

\* A loop in which a hdlr box does not become the handler
parseTagAndPropertiesBody_keepingHandler(fs, fr, header) ==
    IF SameObject(header.boxType, Moov) \/ IsContainer(header.boxType)
    THEN Visit("recurse", fs, fr.handler, addParent(fr.parents, header))
    ELSE IF SameObject(header.boxType, Stsd)
    THEN Visit("next", [fs EXCEPT !.stsd_boxes = Append(@, createBox(header, fr.handler))],
               fr.handler, fr.parents)
    ELSE IF SameObject(header.boxType, Hdlr)
    THEN Visit("next", fs, fr.handler, fr.parents)
    ELSE IF fs.mvhd_box = None /\ SameObject(header.boxType, Mvhd)
    THEN Visit("next", [fs EXCEPT !.mvhd_box = header.position, !.mvhd_handler = fr.handler],
               fr.handler, fr.parents)
    ELSE IF SameObject(header.boxType, Udta)
    THEN Visit("load", fs, fr.handler, fr.parents)
    ELSE IF SameObject(header.boxType, Mdat)
    THEN Visit("next", SetMdat(fs, header), fr.handler, fr.parents)
    ELSE Visit("next", fs, fr.handler, fr.parents)

\* Body of the loop of parseTagAndPropertiesFromStartEndHandlerAndParents
\* (the children of an stsd box are not followed; mvhd_handler is the
\* handler the movie header box is created with)
parseTagAndPropertiesBody(fs, fr, header) ==
    IF SameObject(header.boxType, Moov) \/ IsContainer(header.boxType)
    THEN Visit("recurse", fs, fr.handler, addParent(fr.parents, header))
    ELSE IF SameObject(header.boxType, Stsd)
    THEN Visit("next", [fs EXCEPT !.stsd_boxes = Append(@, createBox(header, fr.handler))],
               fr.handler, fr.parents)
    ELSE IF SameObject(header.boxType, Hdlr)
    THEN Visit("next", fs, header.position, fr.parents)
    ELSE IF fs.mvhd_box = None /\ SameObject(header.boxType, Mvhd)
    THEN Visit("next", [fs EXCEPT !.mvhd_box = header.position, !.mvhd_handler = fr.handler],
               fr.handler, fr.parents)
    ELSE IF SameObject(header.boxType, Udta)
    THEN Visit("load", fs, fr.handler, fr.parents)
    ELSE IF SameObject(header.boxType, Mdat)
    THEN Visit("next", SetMdat(fs, header), fr.handler, fr.parents)
    ELSE Visit("next", fs, fr.handler, fr.parents)

\* Body of the loop of ParseChunkOffsetsFromStartAndEnd
ParseChunkOffsetsBody(fs, fr, header) ==
    IF SameObject(header.boxType, Moov) \/ IsContainer(header.boxType)
    THEN Visit("recurse", fs, fr.handler, fr.parents)
    ELSE IF SameObject(header.boxType, Stco) \/ SameObject(header.boxType, Co64)
    THEN Visit("next", [fs EXCEPT !.stco_boxes = Append(@, createBox(header, None))],
               fr.handler, fr.parents)
    ELSE IF SameObject(header.boxType, Mdat)
    THEN Visit("next", SetMdat(fs, header), fr.handler, fr.parents)
    ELSE Visit("next", fs, fr.handler, fr.parents)

Body(e, fs, fr, header) ==
    CASE e = "parseBoxHeaders" -> parseBoxHeadersBody(fs, fr, header)
      [] e = "parseTag" -> parseTagBody(fs, fr, header)
      [] e = "parseTagAndProperties" -> parseTagAndPropertiesBody(fs, fr, header)
      [] OTHER -> ParseChunkOffsetsBody(fs, fr, header)

\* The handler the udta box is created with: parseTag passes none
UdtaHandler(e, fr) == IF e = "parseTag" THEN None ELSE fr.handler

\* The name of the property each entry point reads off the caught exception
CaughtProp(e) == IF e = "parseChunkOffsets" THEN "Message" ELSE "message"

\* A loop without the break
BreaksNever(total) == FALSE

\* if (header.totalBoxSize === 0) break;
BreaksOn(total) == total = 0

\* position += header.totalBoxSize
Advance(position, total) == position + total

\* Mpeg4Box.loadChildren: if (child.size === 0) break;
ChildEnds(size) == size = 0

----------------------------------------------------------------------------
(* SpecTag: a tag over an ilst read from a file, then read and written    *)

\* A data box and an annotation as AppleDataBox.fromHeaderFileAndHandler and
\* AppleAnnotationBox.fromHeaderFileAndHandler build them from the file
FileDataBox(shared, flags, data) ==
    [cls |-> "data", type |-> DecodedType(Data.b, shared), flags |-> flags, data |-> Val(data)]

FileInfoBox(shared, type, text) ==
    [cls |-> "info", type |-> DecodedType(type.b, shared), flags |-> 0, data |-> Val(text)]

FileAnnotation(shared, type, kids) == [id |-> 0, type |-> DecodedType(type.b, shared), kids |-> kids]

\* The annotations a file of the model may hold
FileAnnotations(shared) ==
    { FileAnnotation(shared, Alb, <<FileDataBox(shared, ContainsText, <<"a">>)>>),
      FileAnnotation(shared, Nam, <<FileDataBox(shared, ContainsText, <<"b">>)>>),
      FileAnnotation(shared, Art, <<FileDataBox(shared, ContainsText, <<"a", ";", " ", "b">>)>>),
      FileAnnotation(shared, Trkn, <<FileDataBox(shared, ContainsData, PairData(1, 2))>>),
      FileAnnotation(shared, Gen, <<FileDataBox(shared, ContainsText, <<"R">>)>>),
      FileAnnotation(shared, Day, <<FileDataBox(shared, ContainsText, <<"1", "9", "9", "9", "5">>)>>),
      FileAnnotation(shared, Gnre, <<FileDataBox(shared, ContainsData, fromUshort(14))>>),
      FileAnnotation(shared, DASH, << FileInfoBox(shared, Mean, ITunes),
                                      FileInfoBox(shared, Name, TrackIdName),
                                      FileDataBox(shared, ContainsText, <<"a">>) >>),
      FileAnnotation(shared, DASH, << FileInfoBox(shared, Mean, ITunes),
                                      FileInfoBox(shared, Name, Lower(TrackIdName)),
                                      FileDataBox(shared, ContainsText, <<"a">>) >>),
      FileAnnotation(shared, DASH, << FileInfoBox(shared, Mean, ITunes),
                                      FileInfoBox(shared, Name, ArtistIdName),
                                      FileDataBox(shared, ContainsText, <<"b">>) >>) }

\* Every box read is an object of its own
Numbered(il) == [i \in 1..Len(il) |-> [il[i] EXCEPT !.id = i]]

\* The ilst contents the model starts from: every list of at most two
\* annotations, and two lists of three that repeat a type
FileIlsts(shared) ==
    LET A == FileAnnotations(shared)
        alb == FileAnnotation(shared, Alb, <<FileDataBox(shared, ContainsText, <<"a">>)>>)
        nam == FileAnnotation(shared, Nam, <<FileDataBox(shared, ContainsText, <<"b">>)>>)
    IN { Numbered(il) : il \in {<<>>} \cup {<<a>> : a \in A} \cup {<<a, c>> : a \in A, c \in A}
                                \cup {<<alb, nam, alb>>, <<alb, alb, nam>>} }

NoOp == [op |-> "none", f |-> "none", arg |-> Undefined, ok |-> TRUE, res |-> Undefined, pre |-> <<>>]

NoCall == [entry |-> "none", fields |-> NewFields]

\* No file opened, no parser made
ParserAtRest ==
    /\ file = [p \in 0..(FileLen - 1) |-> FtypCell]
    /\ corrupt = NotCorrupt
    /\ fields = NewFields
    /\ stack = <<>>
    /\ entry = "none"
    /\ pc = "new"
    /\ thrown = Undefined
    /\ ncalls = 0
    /\ first = NoCall

\* The field initialisers of Mpeg4File
NewMpeg4File ==
    [udtaBoxes |-> <<>>, appleTag |-> FALSE, properties |-> FALSE, tagTypesOnDisk |-> FALSE,
     invariantStartPosition |-> -1, invariantEndPosition |-> -1]

NoSession == [album |-> Undefined, mdat |-> <<-1, -1>>, saved |-> FALSE, reopened |-> FALSE]

\* ReadStyle as read() tests it: whether the Average bit is set, and whether
\* the style is exactly Average
ReadStyles == {[average |-> FALSE, exact |-> FALSE],
               [average |-> TRUE, exact |-> TRUE],
               [average |-> TRUE, exact |-> FALSE]}

\* No Mpeg4File made
FileAtRest ==
    /\ mfile = NewMpeg4File
    /\ mode = "Closed"
    /\ readStyle = [average |-> FALSE, exact |-> FALSE]
    /\ fpc = "none"
    /\ ferr = Undefined
    /\ session = NoSession
    /\ opens = 0

\* A tag that nothing has been done with
TagAtRest ==
    /\ ilst = <<>>
    /\ last = NoOp
    /\ prev = NoOp
    /\ nops = 0

InitTag ==
    /\ typesShared \in BOOLEAN
    /\ ilst \in FileIlsts(typesShared)
    /\ last = NoOp
    /\ prev = NoOp
    /\ nops = 0
    /\ ParserAtRest
    /\ FileAtRest

\* A property getter is called
ReadField(f) ==
    /\ nops < MaxOps
    /\ LET r == GetField(f, ilst)
       IN last' = [op |-> "get", f |-> f, arg |-> Undefined, ok |-> r.ok, res |-> r.v, pre |-> ilst]
    /\ prev' = last
    /\ nops' = nops + 1
    /\ UNCHANGED <<typesShared, ilst>>

\* A property setter is called
WriteField(f, v) ==
    /\ nops < MaxOps
    /\ LET r == SetField(f, ilst, v)
       IN /\ ilst' = r.il
          /\ last' = [op |-> "set", f |-> f, arg |-> v, ok |-> r.ok, res |-> Undefined, pre |-> ilst]
    /\ prev' = last
    /\ nops' = nops + 1
    /\ UNCHANGED typesShared

\* What the tag operations do not touch
ParserIdle == UNCHANGED parserVars

FileIdle == UNCHANGED fileVars

\* The type arguments a caller asks for the album atom with: the entry of
\* the static table, the same 4 bytes in a vector made on the spot, and the
\* legacy 3-byte id
AlbumIds == {Alb, Fresh(Alb.b), Fresh(<<"a", "l", "b">>)}

\* tag.dataBoxesFromTypeParams(type)
DataBoxes(type) ==
    /\ nops < MaxOps
    /\ last' = [NoOp EXCEPT !.op = "boxes", !.arg = type,
                            !.res = dataBoxesFromTypes(ilst, type), !.pre = ilst]
    /\ prev' = last
    /\ nops' = nops + 1
    /\ UNCHANGED <<typesShared, ilst>>

NextTag ==
    \/ \E f \in Fields : ReadField(f) /\ ParserIdle /\ FileIdle
    \/ \E f \in Fields : \E v \in FieldArgs(f) : WriteField(f, v) /\ ParserIdle /\ FileIdle
    \/ \E type \in AlbumIds : DataBoxes(type) /\ ParserIdle /\ FileIdle

SpecTag == InitTag /\ [][NextTag]_vars

----------------------------------------------------------------------------
(* SpecParser: a parser over a file, its entry points called in any order *)

\* The files of the model: a first box that is 'ftyp' or is not, then any
\* header at every further position
Files ==
    {f \in [0..(FileLen - 1) -> Cells \cup {FtypCell}] :
        /\ f[0] \in {FtypCell, [FtypCell EXCEPT !.type = Free.b]}
        /\ \A p \in 1..(FileLen - 1) : f[p] \in Cells}

InitParser ==
    /\ typesShared \in BOOLEAN
    /\ file \in Files
    /\ corrupt = NotCorrupt
    /\ fields = NewFields
    /\ stack = <<>>
    /\ entry = "none"
    /\ pc = "new"
    /\ thrown = Undefined
    /\ ncalls = 0
    /\ first = NoCall
    /\ TagAtRest
    /\ FileAtRest

\* new Mpeg4FileParser(file)
Construct ==
    /\ pc = "new"
    /\ pc' = IF ConstructorThrows(file, typesShared) THEN "failed" ELSE "idle"
    /\ UNCHANGED <<file, corrupt, fields, stack, entry, thrown, ncalls, first>>

\* The first completed call is remembered with the fields it left
Remember(e, fs) == IF first.entry = "none" THEN [entry |-> e, fields |-> fs] ELSE first

\* An entry point is called: try { this.resetFields(); parse...(first_header.totalBoxSize, file.length, ...)
Call(e) ==
    /\ pc = "idle"
    /\ ncalls < MaxCalls
    /\ entry' = e
    /\ fields' = resetFields(fields)
    /\ stack' = <<Frame(Mpeg4BoxHeader_fromFileAndPosition(file, typesShared, 0).totalBoxSize,
                        FileLength(file), None, <<>>)>>
    /\ pc' = "running"
    /\ thrown' = Undefined
    /\ ncalls' = ncalls + 1
    /\ UNCHANGED <<file, corrupt, first>>

Top == stack[Len(stack)]

Callers == SubSeq(stack, 1, Len(stack) - 1)

\* The activation on top returns: to its caller (the children it loaded
\* with it), or out of the entry point
Return(fs) ==
    IF Len(stack) = 1
    THEN /\ stack' = <<>>
         /\ pc' = "idle"
         /\ first' = Remember(entry, fs)
    ELSE /\ stack' = IF Top.kind = "load"
                     THEN [Callers EXCEPT ![Len(Callers)].got = Top.children]
                     ELSE Callers
         /\ UNCHANGED <<pc, first>>

\* The top activation goes on with a changed frame
Continue(fr) ==
    /\ stack' = Callers \o <<fr>>
    /\ UNCHANGED <<pc, first>>

\* The top activation makes a call
Invoke(fr, callee) ==
    /\ stack' = Callers \o <<fr, callee>>
    /\ UNCHANGED <<pc, first>>

HeaderAtTop == Mpeg4BoxHeader_fromFileAndPosition(file, typesShared, Top.position)

\* The loop condition position < end fails
Leave ==
    /\ pc = "running"
    /\ Top.total = None
    /\ Top.position >= Top.end
    /\ Return(fields)
    /\ UNCHANGED <<file, corrupt, fields, entry, thrown, ncalls>>

\* One iteration of a parse loop: read the header, act on its type, then
\* recurse, create the udta box, or go on to the break test and the increment
Iterate ==
    /\ pc = "running"
    /\ Top.kind = "parse"
    /\ Top.total = None
    /\ Top.position < Top.end
    /\ HeaderAtTop.ok
    /\ LET header == HeaderAtTop
           visit == Body(entry, fields, Top, header)
       IN /\ fields' = visit.fields
          /\ CASE visit.does = "recurse" ->
                    Invoke([Top EXCEPT !.total = header.totalBoxSize],
                           Frame(header.headerSize + Top.position,
                                 header.totalBoxSize + Top.position,
                                 visit.handler, visit.parents))
               [] visit.does = "load" ->
                    Invoke([Top EXCEPT !.total = header.totalBoxSize, !.making = "udta"],
                           LoadFrame(header.position + header.headerSize,
                                     header.position + header.totalBoxSize,
                                     UdtaHandler(entry, Top)))
               [] OTHER ->
                    IF BreaksOn(header.totalBoxSize)
                    THEN Return(visit.fields)
                    ELSE Continue([Top EXCEPT !.position = Advance(@, header.totalBoxSize),
                                              !.handler = visit.handler])
    /\ UNCHANGED <<file, corrupt, entry, thrown, ncalls>>

\* The call made by a parse loop has returned: the udta box, if one was being
\* created, is kept; then the break test and the increment
Resume ==
    /\ pc = "running"
    /\ Top.kind = "parse"
    /\ Top.total # None
    /\ LET header == HeaderAtTop
           fs == IF Top.making = "udta"
                 THEN [fields EXCEPT !.udta_boxes =
                          Append(@, UdtaBox(header, UdtaHandler(entry, Top), Top.parents, Top.got))]
                 ELSE fields
       IN /\ fields' = fs
          /\ IF BreaksOn(Top.total)
             THEN Return(fs)
             ELSE Continue([Top EXCEPT !.position = Advance(@, Top.total), !.total = None,
                                       !.making = "", !.got = <<>>])
    /\ UNCHANGED <<file, corrupt, entry, thrown, ncalls>>

\* One iteration of loadChildren: the factory reads the header of the child
\* and creates it, loading its children first if it is a container
LoadChild ==
    /\ pc = "running"
    /\ Top.kind = "load"
    /\ Top.total = None
    /\ Top.position < Top.end
    /\ HeaderAtTop.ok
    /\ LET header == HeaderAtTop
       IN IF LoadsChildren(header.boxType)
          THEN Invoke([Top EXCEPT !.total = header.totalBoxSize],
                      LoadFrame(header.position + header.headerSize,
                                header.position + header.totalBoxSize, Top.handler))
          ELSE IF ChildEnds(header.totalBoxSize)
          THEN Return(fields)
          ELSE Continue([Top EXCEPT !.children = Append(@, ChildBox(header, <<>>)),
                                    !.position = @ + header.totalBoxSize])
    /\ UNCHANGED <<file, corrupt, fields, entry, thrown, ncalls>>

\* The children of a child have been loaded: the size test, then the child
\* is added
LoadResume ==
    /\ pc = "running"
    /\ Top.kind = "load"
    /\ Top.total # None
    /\ IF ChildEnds(Top.total)
       THEN Return(fields)
       ELSE Continue([Top EXCEPT !.children = Append(@, ChildBox(HeaderAtTop, Top.got)),
                                 !.position = @ + Top.total, !.total = None, !.got = <<>>])
    /\ UNCHANGED <<file, corrupt, fields, entry, thrown, ncalls>>

\* Reading a header throws: the catch clause of the entry point
Catch ==
    /\ pc = "running"
    /\ Top.total = None
    /\ Top.position < Top.end
    /\ ~HeaderAtTop.ok
    /\ thrown' = Val(HeaderAtTop.e.message)
    /\ corrupt' = markAsCorrupt(ErrorProp(HeaderAtTop.e, CaughtProp(entry)))
    /\ stack' = <<>>
    /\ pc' = "idle"
    /\ first' = Remember(entry, fields)
    /\ UNCHANGED <<file, fields, entry, ncalls>>

Traverse == Leave \/ Iterate \/ Resume \/ LoadChild \/ LoadResume \/ Catch

\* What the parser does not touch
TagIdle == UNCHANGED <<typesShared, ilst, last, prev, nops>>

NextParser ==
    \/ Construct /\ TagIdle /\ FileIdle
    \/ \E e \in EntryPoints : Call(e) /\ TagIdle /\ FileIdle
    \/ Leave /\ TagIdle /\ FileIdle
    \/ Iterate /\ TagIdle /\ FileIdle
    \/ Resume /\ TagIdle /\ FileIdle
    \/ LoadChild /\ TagIdle /\ FileIdle
    \/ LoadResume /\ TagIdle /\ FileIdle
    \/ Catch /\ TagIdle /\ FileIdle

SpecParser == InitParser /\ [][NextParser]_vars

\* A call that has started runs on
LiveParser == SpecParser /\ WF_vars(Traverse /\ TagIdle /\ FileIdle)

----------------------------------------------------------------------------
(* SpecWalk: the parser over files with tracks, handlers and nested boxes *)

\* A header of 8 bytes with the size n and the type given
Cell(type, n) == [size |-> [kind |-> "size", n |-> n], type |-> type.b]

\* The file that starts with an ftyp box and goes on with the cells given
AsFile(cells) == [p \in 0..Len(cells) |-> IF p = 0 THEN FtypCell ELSE cells[p]]

\* The files of the model, a box written with the boxes it holds:
\*   moov{trak{hdlr} udta} mdat        trak{hdlr} trak{stsd}
\*   hdlr trak{stsd} mvhd              moov moov{udta}
\*   udta moov{udta{meta{ilst}}}       free{udta} udta
\*   moov{hdlr stsd} udta              udta{udta}
\*   moov{trak{udta} udta}             stco, then a 64-bit size cut off by the end
WalkFiles ==
    { AsFile(<<Cell(Moov, 4), Cell(Trak, 2), Cell(Hdlr, 1), Cell(Udta, 1), Cell(Mdat, 1)>>),
      AsFile(<<Cell(Trak, 2), Cell(Hdlr, 1), Cell(Trak, 2), Cell(Stsd, 1)>>),
      AsFile(<<Cell(Hdlr, 1), Cell(Trak, 2), Cell(Stsd, 1), Cell(Mvhd, 1)>>),
      AsFile(<<Cell(Moov, 1), Cell(Moov, 2), Cell(Udta, 1)>>),
      AsFile(<<Cell(Udta, 1), Cell(Moov, 4), Cell(Udta, 3), Cell(Meta, 2), Cell(Ilst, 1)>>),
      AsFile(<<Cell(Free, 2), Cell(Udta, 1), Cell(Udta, 1)>>),
      AsFile(<<Cell(Moov, 3), Cell(Hdlr, 1), Cell(Stsd, 1), Cell(Udta, 1)>>),
      AsFile(<<Cell(Udta, 2), Cell(Udta, 1)>>),
      AsFile(<<Cell(Moov, 4), Cell(Trak, 2), Cell(Udta, 1), Cell(Udta, 1)>>),
      AsFile(<<Cell(Stco, 1), [size |-> [kind |-> "large", n |-> 1], type |-> Stco.b]>>),
      AsFile(<<Cell(Udta, 2), Cell(Free, 2), Cell(Free, 1)>>),
      AsFile(<<Cell(Udta, 2), [size |-> [kind |-> "eof", n |-> 0], type |-> Free.b], Cell(Mdat, 1)>>),
      AsFile(<<Cell(Udta, 3), Cell(Meta, 2), Cell(Free, 1)>>) }

InitWalk ==
    /\ typesShared \in BOOLEAN
    /\ file \in WalkFiles
    /\ corrupt = NotCorrupt
    /\ fields = NewFields
    /\ stack = <<>>
    /\ entry = "none"
    /\ pc = "new"
    /\ thrown = Undefined
    /\ ncalls = 0
    /\ first = NoCall
    /\ TagAtRest
    /\ FileAtRest

SpecWalk == InitWalk /\ [][NextParser]_vars

----------------------------------------------------------------------------
(* Mpeg4File *)

\* Mpeg4Box.getChildRecursively: a direct child first, then depth first
RECURSIVE getChildRecursively(_, _), getChildBelow(_, _, _)
getChildRecursively(children, type) ==
    LET i == getChild(children, type)
    IN IF i # 0 THEN Val(children[i]) ELSE getChildBelow(children, 1, type)

getChildBelow(children, k, type) ==
    IF k > Len(children) THEN Undefined
    ELSE LET childBox == getChildRecursively(children[k].children, type)
         IN IF childBox.def THEN childBox ELSE getChildBelow(children, k + 1, type)

\* IsoUserDataBox.fromEmpty
IsoUserDataBox_fromEmpty ==
    [position |-> None, type |-> Fresh(Udta.b), handler |-> None, parentTree |-> <<>>,
     children |-> <<>>]

\* AppleItemListBox.fromEmpty
AppleItemListBox_fromEmpty == [position |-> None, type |-> Fresh(Ilst.b), children |-> <<>>]

\* IsoMetaBox.fromHandlerTypeAndHandlerName: a meta box holding a handler box
IsoMetaBox_fromHandlerTypeAndHandlerName ==
    [position |-> None, type |-> Fresh(Meta.b),
     children |-> <<[position |-> None, type |-> Fresh(Hdlr.b), children |-> <<>>,
                     handlerType |-> <<"m", "d", "i", "r">>]>>]

\* Mpeg4File.isAppleTagUdtaPresent
isAppleTagUdtaPresent(boxes) ==
    \E k \in 1..Len(boxes) :
        LET m == getChild(boxes[k].children, Meta)
        IN m # 0 /\ getChild(boxes[k].children[m].children, Ilst) # 0

\* A choice that takes the first udta box with an ilst box, whatever its depth
findAppleTagUdta_first(boxes) ==
    IF Len(boxes) = 1 THEN {1}
    ELSE LET possible == {k \in 1..Len(boxes) : getChildRecursively(boxes[k].children, Ilst).def}
         IN IF possible = {} THEN {0}
            ELSE {k \in possible : \A j \in possible : k <= j}

\* Mpeg4File.findAppleTagUdta: the index of the box returned, 0 for
\* undefined.  With several udta boxes the comparator of the sort never
\* answers "equal", so any of the shallowest boxes may come first.
findAppleTagUdta(boxes) ==
    IF Len(boxes) = 1 THEN {1}
    ELSE LET possible == {k \in 1..Len(boxes) : getChildRecursively(boxes[k].children, Ilst).def}
         IN IF possible = {} THEN {0}
            ELSE {k \in possible :
                    \A j \in possible : Len(boxes[k].parentTree) <= Len(boxes[j].parentTree)}

\* The children of an ilst box found in the file, as the tag sees them (the
\* payload of the annotations is not part of the file of this model)
AnnotationsOf(children) ==
    [k \in 1..Len(children) |-> [id |-> k, type |-> children[k].type, kids |-> <<>>]]

\* new AppleTag(box): the meta box and the ilst box are looked up among the
\* children and created and added when they are not found.  The result is
\* the box as the constructor leaves it and the children of the ilst box.
AppleTag_new(box) ==
    LET m == getChild(box.children, Meta)
        meta_box == IF m = 0 THEN IsoMetaBox_fromHandlerTypeAndHandlerName ELSE box.children[m]
        i == getChild(meta_box.children, Ilst)
        ilst_box == IF i = 0 THEN AppleItemListBox_fromEmpty ELSE meta_box.children[i]
        meta_after == IF i = 0 THEN [meta_box EXCEPT !.children = Append(@, ilst_box)]
                      ELSE meta_box
    IN [box |-> IF m = 0 THEN [box EXCEPT !.children = Append(@, meta_after)]
                ELSE [box EXCEPT !.children[m] = meta_after],
        ilst |-> AnnotationsOf(ilst_box.children)]

\* The entry point read() calls: (readStyle & ReadStyle.Average) === 0
ParseFor(style) == IF ~style.average THEN "parseTag" ELSE "parseTagAndProperties"

\* A read() without the finally clause
Finally_missing(m) == m

\* finally { this.mode = FileAccessMode.Closed; }
Finally(m) == "Closed"

----------------------------------------------------------------------------
(* SpecFile: an Mpeg4File is constructed over a file, its album is        *)
(* assigned, it is saved, and the file is opened again                    *)

InitFile ==
    /\ typesShared \in BOOLEAN
    /\ file \in Files
    /\ corrupt = NotCorrupt
    /\ fields = NewFields
    /\ stack = <<>>
    /\ entry = "none"
    /\ pc = "new"
    /\ thrown = Undefined
    /\ ncalls = 0
    /\ first = NoCall
    /\ TagAtRest
    /\ mfile = NewMpeg4File
    /\ mode = "Closed"
    /\ readStyle \in ReadStyles
    /\ fpc = "new"
    /\ ferr = Undefined
    /\ session = NoSession
    /\ opens = 1

\* read(): this._tag = new Mpeg4Tag(); this.mode = FileAccessMode.Read;
ReadBegin ==
    /\ fpc = "new"
    /\ mfile' = [mfile EXCEPT !.appleTag = FALSE]
    /\ mode' = "Read"
    /\ fpc' = "construct"
    /\ UNCHANGED <<readStyle, ferr, session, opens>>
    /\ UNCHANGED parserVars
    /\ TagIdle

\* const parser = new Mpeg4FileParser(this); an exception leaves read()
\* through the finally clause
ReadConstruct ==
    /\ fpc = "construct"
    /\ Construct
    /\ IF ConstructorThrows(file, typesShared)
       THEN /\ fpc' = "thrown"
            /\ ferr' = Val("File does not start with 'ftyp' box.")
            /\ mode' = Finally(mode)
       ELSE /\ fpc' = "parse"
            /\ UNCHANGED <<ferr, mode>>
    /\ UNCHANGED <<mfile, readStyle, session, opens>>
    /\ TagIdle

\* parser.parseTag() or parser.parseTagAndProperties()
ReadParse ==
    /\ fpc = "parse"
    /\ Call(ParseFor(readStyle))
    /\ fpc' = "parsing"
    /\ UNCHANGED <<mfile, mode, readStyle, ferr, session, opens>>
    /\ TagIdle

\* The parser has returned: the positions of mdat and the udta boxes are
\* taken over, the udta box of the Apple tag is chosen and the tag is made
ReadTag ==
    /\ fpc = "parsing"
    /\ pc = "idle"
    /\ LET pushed == mfile.udtaBoxes \o fields.udta_boxes
           boxes == IF Len(pushed) = 0 THEN <<IsoUserDataBox_fromEmpty>> ELSE pushed
       IN \E u \in findAppleTagUdta(boxes) :
            LET udtaBox == IF u = 0 THEN IsoUserDataBox_fromEmpty ELSE boxes[u]
                tag == AppleTag_new(udtaBox)
            IN /\ mfile' = [mfile EXCEPT
                              !.invariantStartPosition = fields.mdat_start,
                              !.invariantEndPosition = fields.mdat_end,
                              !.udtaBoxes = IF u = 0 THEN boxes ELSE [boxes EXCEPT ![u] = tag.box],
                              !.tagTypesOnDisk = @ \/ isAppleTagUdtaPresent(boxes),
                              !.appleTag = TRUE]
               /\ ilst' = tag.ilst
    /\ fpc' = "tagged"
    /\ UNCHANGED <<mode, readStyle, ferr, session, opens>>
    /\ UNCHANGED parserVars
    /\ UNCHANGED <<typesShared, last, prev, nops>>

\* The rest of read(): the early return, the movie header check, the
\* properties; every way out passes the finally clause
ReadProperties ==
    /\ fpc = "tagged"
    /\ IF readStyle.exact
       THEN /\ mode' = Finally("Closed")
            /\ fpc' = "done"
            /\ UNCHANGED <<mfile, ferr>>
       ELSE IF fields.mvhd_box = None
       THEN /\ mode' = Finally("Closed")
            /\ fpc' = "thrown"
            /\ ferr' = Val("mvhd box not found.")
            /\ UNCHANGED mfile
       ELSE /\ mfile' = [mfile EXCEPT !.properties = TRUE]
            /\ mode' = Finally(mode)
            /\ fpc' = "done"
            /\ UNCHANGED ferr
    /\ UNCHANGED <<readStyle, session, opens>>
    /\ UNCHANGED parserVars
    /\ TagIdle

\* tag.album = v on the constructed file
SetAlbum(v) ==
    /\ fpc = "done"
    /\ WriteField("album", v)
    /\ session' = [album |-> v,
                   mdat |-> <<mfile.invariantStartPosition, mfile.invariantEndPosition>>,
                   saved |-> FALSE, reopened |-> FALSE]
    /\ UNCHANGED <<mfile, mode, readStyle, fpc, ferr, opens>>
    /\ UNCHANGED parserVars

\* tag.album on the constructed file
GetAlbum ==
    /\ fpc = "done"
    /\ ReadField("album")
    /\ UNCHANGED fileVars
    /\ UNCHANGED parserVars

\* Mpeg4File.save: the body is empty
Save ==
    /\ fpc = "done"
    /\ session' = [session EXCEPT !.saved = TRUE]
    /\ UNCHANGED <<mfile, mode, readStyle, fpc, ferr, opens>>
    /\ UNCHANGED parserVars
    /\ TagIdle

\* new Mpeg4File(file, readStyle) on the same file: a new file object, a
\* new parser, a new tag
Reopen ==
    /\ fpc = "done"
    /\ opens < MaxOpens
    /\ opens' = opens + 1
    /\ session' = [session EXCEPT !.reopened = TRUE]
    /\ mfile' = NewMpeg4File
    /\ mode' = "Closed"
    /\ fpc' = "new"
    /\ ferr' = Undefined
    /\ corrupt' = NotCorrupt
    /\ fields' = NewFields
    /\ stack' = <<>>
    /\ entry' = "none"
    /\ pc' = "new"
    /\ thrown' = Undefined
    /\ ncalls' = 0
    /\ first' = NoCall
    /\ ilst' = <<>>
    /\ UNCHANGED <<file, readStyle, typesShared, last, prev, nops>>

NextFile ==
    \/ ReadBegin
    \/ ReadConstruct
    \/ ReadParse
    \/ Leave /\ TagIdle /\ FileIdle
    \/ Iterate /\ TagIdle /\ FileIdle
    \/ Resume /\ TagIdle /\ FileIdle
    \/ LoadChild /\ TagIdle /\ FileIdle
    \/ LoadResume /\ TagIdle /\ FileIdle
    \/ Catch /\ TagIdle /\ FileIdle
    \/ ReadTag
    \/ ReadProperties
    \/ \E v \in FieldArgs("album") : SetAlbum(v)
    \/ GetAlbum
    \/ Save
    \/ Reopen

SpecFile == InitFile /\ [][NextFile]_vars

----------------------------------------------------------------------------
(* SpecBox: a udta box, as the parser hands it over or as fromEmpty makes *)
(* it, on which an AppleTag is constructed, and constructed again         *)

\* A box the factory made from the file: its type is the decoded one
FileBox(shared, type, children) ==
    [position |-> 0, type |-> DecodedType(type.b, shared), children |-> children]

\* The meta boxes a udta box of the model may hold: read from the file
\* without an ilst box, with an empty one, with one that has an annotation;
\* or made by an earlier AppleTag
MetaBoxes(shared) ==
    { FileBox(shared, Meta, <<FileBox(shared, Hdlr, <<>>)>>),
      FileBox(shared, Meta, <<FileBox(shared, Hdlr, <<>>), FileBox(shared, Ilst, <<>>)>>),
      FileBox(shared, Meta, <<FileBox(shared, Ilst, <<FileBox(shared, Alb, <<>>)>>)>>),
      [IsoMetaBox_fromHandlerTypeAndHandlerName EXCEPT !.children = Append(@, AppleItemListBox_fromEmpty)] }

\* The udta boxes of the model: no child, or at most one meta box next to a
\* free box
UdtaBoxes(shared) ==
    LET free == FileBox(shared, Free, <<>>)
        lists == {<<>>, <<free>>, <<free, free>>}
                   \cup {<<m>> : m \in MetaBoxes(shared)}
                   \cup {<<free, m>> : m \in MetaBoxes(shared)}
                   \cup {<<m, free>> : m \in MetaBoxes(shared)}
    IN {[IsoUserDataBox_fromEmpty EXCEPT !.children = l] : l \in lists}

InitBox ==
    /\ typesShared \in BOOLEAN
    /\ mfile \in {[NewMpeg4File EXCEPT !.udtaBoxes = <<u>>] : u \in UdtaBoxes(typesShared)}
    /\ mode = "Closed"
    /\ readStyle = [average |-> FALSE, exact |-> FALSE]
    /\ fpc = "none"
    /\ ferr = Undefined
    /\ session = NoSession
    /\ opens = 0
    /\ TagAtRest
    /\ ParserAtRest

\* new AppleTag(udta) on the udta box
TagOn ==
    /\ nops < MaxOps
    /\ LET tag == AppleTag_new(mfile.udtaBoxes[1])
       IN /\ mfile' = [mfile EXCEPT !.udtaBoxes = <<tag.box>>, !.appleTag = TRUE]
          /\ ilst' = tag.ilst
    /\ last' = [NoOp EXCEPT !.op = "tag"]
    /\ prev' = last
    /\ nops' = nops + 1
    /\ UNCHANGED <<typesShared, mode, readStyle, fpc, ferr, session, opens>>
    /\ UNCHANGED parserVars

\* The type objects a caller may look a box up with: the entry of the static
\* table, or a byte vector of the same bytes made on the spot
LookupTypes == {Meta, Ilst, Fresh(Meta.b), Fresh(Ilst.b)}

\* udta.getChildRecursively(type)
Find(type) ==
    /\ nops < MaxOps
    /\ last' = [NoOp EXCEPT !.op = "find", !.arg = type,
                            !.res = getChildRecursively(mfile.udtaBoxes[1].children, type),
                            !.pre = mfile.udtaBoxes[1].children]
    /\ prev' = last
    /\ nops' = nops + 1
    /\ UNCHANGED <<typesShared, ilst>>
    /\ UNCHANGED fileVars
    /\ UNCHANGED parserVars

\* The character codes of the box types of the model
CharCode(c) ==
    CASE c = "@" -> 169 [] c = "a" -> 97  [] c = "b" -> 98  [] c = "d" -> 100
      [] c = "e" -> 101 [] c = "f" -> 102 [] c = "i" -> 105 [] c = "k" -> 107
      [] c = "l" -> 108 [] c = "n" -> 110 [] c = "r" -> 114 [] c = "s" -> 115
      [] c = "t" -> 116 [] OTHER -> 63

\* ByteVector.fromString(type) and ByteVector.toString on four bytes
TypeBytes(b) == [i \in 1..Len(b) |-> CharCode(b[i])]

TypeChars(bytes) ==
    LET known == {"@", "a", "b", "d", "e", "f", "i", "k", "l", "n", "r", "s", "t"}
    IN [i \in 1..Len(bytes) |->
           IF \E c \in known : CharCode(c) = bytes[i]
           THEN CHOOSE c \in known : CharCode(c) = bytes[i]
           ELSE "?"]

\* Mpeg4BoxHeader.render with dataSize set: the total size on four bytes,
\* then the type
Mpeg4BoxHeader_render(type, dataSize) == fromInt(dataSize + 8) \o TypeBytes(type.b)

\* Mpeg4BoxFactory on the bytes of one box under a parent of class parent,
\* with the constructors fromHeaderFileAndHandler of the classes: every child
\* of an ilst box is an annotation; a data box reads its version and flags
\* from the first four bytes after the header and its data from the eighth
\* on; a free box keeps the size of its data as its padding. The field
\* children of every Mpeg4Box starts as []
RECURSIVE ReadBox(_, _, _), loadChildren(_, _, _)
ReadBox(bytes, shared, parent) ==
    LET type == DecodedType(TypeChars(SubSeq(bytes, 5, 8)), shared)
        body == SubSeq(bytes, 9, Len(bytes))
        cls  == IF parent = "ilst" THEN "annotation"
                ELSE IF type.b = Data.b THEN "data"
                ELSE IF type.b = Free.b THEN "free"
                ELSE IF type.b = Ilst.b THEN "ilst"
                ELSE "unknown"
        box  == [cls |-> cls, type |-> type, version |-> 0, flags |-> 0, data |-> Undefined,
                 padding |-> 0, dataSize |-> Len(body), children |-> <<>>]
    IN CASE cls \in {"ilst", "annotation"} ->
              [box EXCEPT !.children = loadChildren(body, shared, cls)]
         [] cls = "data" ->
              [box EXCEPT !.version = body[1],
                          !.flags = toUint(SubSeq(body, 2, 4)),
                          !.dataSize = Len(body) - 8,
                          !.data = Val(SubSeq(body, 9, Len(body)))]
         [] cls = "free" -> [box EXCEPT !.padding = Len(body)]
         [] OTHER -> [box EXCEPT !.data = Val(body)]

\* Mpeg4Box.loadChildren over the bytes between dataPosition and the end of
\* the box: one box after the other, each as long as its size field says
loadChildren(bytes, shared, parent) ==
    IF Len(bytes) < 8 THEN <<>>
    ELSE LET size == toUint(SubSeq(bytes, 1, 4))
         IN IF size < 8 \/ size > Len(bytes) THEN <<>>
            ELSE <<ReadBox(SubSeq(bytes, 1, size), shared, parent)>>
                     \o loadChildren(SubSeq(bytes, size + 1, Len(bytes)), shared, parent)

\* IsoFreeSpaceBox.fromPadding(padding).render(): the new box takes its
\* padding from its own unset field, not from the argument, and as its
\* children are [] its render is its header alone
IsoFreeSpaceBox_fromPadding(padding) == Mpeg4BoxHeader_render(Fresh(Free.b), 0)

RECURSIVE render(_), renderChildren(_)
\* for (const box of this.children): every child but the free boxes
renderChildren(children) ==
    IF children = <<>> THEN <<>>
    ELSE (IF Head(children).cls = "free" THEN <<>> ELSE render(Head(children)))
             \o renderChildren(Tail(children))

\* Mpeg4Box.renderUsingTopData: this.children is an array on every box, so
\* the branch that adds this.data is never taken
Mpeg4Box_renderUsingTopData(box, topData) ==
    LET rendered  == renderChildren(box.children)
        freeFound == \E i \in 1..Len(box.children) : box.children[i].cls = "free"
        sizeDifference == box.dataSize - Len(rendered)
        output == IF freeFound \/ SameObject(box.type, Meta)
                  THEN rendered \o (IF box.dataSize # 0 /\ sizeDifference >= 8
                                    THEN IsoFreeSpaceBox_fromPadding(sizeDifference)
                                    ELSE IsoFreeSpaceBox_fromPadding(2048))
                  ELSE rendered
    IN Mpeg4BoxHeader_render(box.type, Len(topData) + Len(output)) \o topData \o output

\* FullBox.renderUsingTopData: fromInt(version), three bytes of the flags
FullBox_renderUsingTopData(box, topData) ==
    Mpeg4Box_renderUsingTopData(box, fromInt(box.version) \o SubSeq(fromInt(box.flags), 2, 4) \o topData)

\* AppleDataBox.renderUsingTopData
AppleDataBox_renderUsingTopData(box, topData) ==
    FullBox_renderUsingTopData(box, fromInt(4) \o topData)

\* Mpeg4Box.render, on the class of the box
render(box) ==
    IF box.cls = "data"
    THEN AppleDataBox_renderUsingTopData(box, <<>>)
    ELSE IF box.cls \in {"stco", "co64", "meta"}
    THEN FullBox_renderUsingTopData(box, <<>>)
    ELSE Mpeg4Box_renderUsingTopData(box, <<>>)

\* The bytes of a box in a valid file: header, then content; a data box has
\* one byte of version, three of flags, four reserved, then its payload
BoxBytes(type, body) == fromInt(Len(body) + 8) \o TypeBytes(type.b) \o body

DataBoxBytes(version, flags, payload) ==
    BoxBytes(Data, <<version>> \o SubSeq(fromInt(flags), 2, 4) \o fromInt(0) \o payload)

\* The ilst boxes of the files of the model: no annotation, one annotation
\* of at most two children (data boxes, free boxes), or two annotations
IlstFiles ==
    LET kids == {DataBoxBytes(v, ContainsText, p) : v \in {0, 1}, p \in {<<>>, <<7>>}}
                   \cup {BoxBytes(Free, <<>>), BoxBytes(Free, [i \in 1..9 |-> 0])}
        lists == {<<>>} \cup kids \cup {k \o l : k \in kids, l \in kids}
        alb == {BoxBytes(Alb, l) : l \in lists}
        two == BoxBytes(Alb, <<>>) \o BoxBytes(Trkn, <<>>)
    IN {BoxBytes(Ilst, <<>>), BoxBytes(Ilst, two)} \cup {BoxBytes(Ilst, a) : a \in alb}

\* The ilst box of a file is read, rendered, and the rendered bytes are read
\* again
Render(bytes) ==
    /\ nops < MaxOps
    /\ LET tree == ReadBox(bytes, typesShared, "meta")
           rendered == render(tree)
       IN last' = [NoOp EXCEPT !.op = "render", !.arg = tree,
                               !.res = ReadBox(rendered, typesShared, "meta"),
                               !.pre = rendered]
    /\ prev' = last
    /\ nops' = nops + 1
    /\ UNCHANGED <<typesShared, ilst>>
    /\ UNCHANGED fileVars
    /\ UNCHANGED parserVars

\* A setter of the tag made on the udta box is called
Mutate(f, v) ==
    /\ mfile.appleTag
    /\ WriteField(f, v)
    /\ ParserIdle
    /\ FileIdle

NextBox ==
    \/ TagOn
    \/ \E type \in LookupTypes : Find(type)
    \/ \E bytes \in IlstFiles : Render(bytes)
    \/ \E f \in {"album", "year"} : \E v \in FieldArgs(f) : Mutate(f, v)

SpecBox == InitBox /\ [][NextBox]_vars

----------------------------------------------------------------------------
(* SpecData: the boxes that hold numbers and sizes, each operation applied *)
(* to a box read from a valid file                                         *)

\* ByteVector.fromUlong: eight bytes; the offsets of the model fit in four
fromUlong(v) == fromInt(0) \o fromInt(v)

\* The width of an entry of a chunk-offset box: stco 4 bytes, co64 8 bytes
EntryWidth(kind) == IF kind = "co64" THEN 8 ELSE 4

\* The data of a chunk-offset box in a valid file: the 32-bit count of the
\* entries, then the entries
TableBytes(kind, entries) ==
    LET RECURSIVE all(_)
        all(es) == IF es = <<>> THEN <<>>
                   ELSE (IF kind = "co64" THEN fromUlong(Head(es)) ELSE fromInt(Head(es)))
                            \o all(Tail(es))
    IN fromInt(Len(entries)) \o all(entries)

\* IsoChunkOffsetBox.fromHeaderFileAndHandler and
\* IsoChunkLargeOffsetBox.fromHeaderFileAndHandler on the data of the box:
\* _offsets starts as the array of the one number read from the first four
\* bytes, and the loop runs over the length of that array
ChunkOffsets_fromData(kind, box_data) ==
    LET width == EntryWidth(kind)
        start == <<toUint(subarray(box_data, 0, 4))>>
    IN [i \in 1..Len(start) |-> toUint(subarray(box_data, 4 + (i - 1) * width, width))]

\* IsoChunkOffsetBox.data and IsoChunkLargeOffsetBox.data
ChunkOffsets_data(kind, offsets) == TableBytes(kind, offsets)

\* renderUsingSizeDifference: the loop over this.offsets
ShiftOffsets(offsets, sizeDifference, after) ==
    [i \in 1..Len(offsets) |->
        IF offsets[i] >= after THEN offsets[i] + sizeDifference ELSE offsets[i]]

\* The chunk-offset box as the full box it is: version and flags 0
ChunkBox(kind, shared, box_data) ==
    [cls |-> kind, type |-> DecodedType(IF kind = "co64" THEN Co64.b ELSE Stco.b, shared),
     version |-> 0, flags |-> 0, data |-> Undefined, padding |-> 0,
     dataSize |-> Len(box_data), children |-> <<>>]

\* renderUsingSizeDifference(sizeDifference, after) on a box read from the
\* data box_data: the offsets it leaves in the box and the bytes it returns
renderUsingSizeDifference(kind, shared, box_data, sizeDifference, after) ==
    [offsets |-> ShiftOffsets(ChunkOffsets_fromData(kind, box_data), sizeDifference, after),
     rendered |-> render(ChunkBox(kind, shared, box_data))]

\* The offset tables of the files of the model: at most two entries, below
\* and above the start of the mdat box
Tables == {<<>>} \cup {<<e>> : e \in {2, 5}} \cup {<<e, g>> : e \in {2, 5}, g \in {2, 5}}

InitData ==
    /\ typesShared \in BOOLEAN
    /\ TagAtRest
    /\ ParserAtRest
    /\ FileAtRest

\* A chunk-offset box is read from the file and its data is asked for
ReadOffsets(kind, entries) ==
    /\ nops < MaxOps
    /\ LET offsets == ChunkOffsets_fromData(kind, TableBytes(kind, entries))
       IN last' = [NoOp EXCEPT !.op = "offsets", !.f = kind, !.arg = entries,
                               !.res = offsets,
                               !.pre = ChunkOffsets_data(kind, offsets)]
    /\ prev' = last
    /\ nops' = nops + 1
    /\ UNCHANGED <<typesShared, ilst>>

\* A chunk-offset box is read from the file and adjusted for a change of
\* sizeDifference bytes before the position after
Adjust(kind, entries, sizeDifference, after) ==
    /\ nops < MaxOps
    /\ LET r == renderUsingSizeDifference(kind, typesShared, TableBytes(kind, entries),
                                          sizeDifference, after)
       IN last' = [NoOp EXCEPT !.op = "adjust", !.f = kind,
                               !.arg = [entries |-> entries, sizeDifference |-> sizeDifference,
                                        after |-> after],
                               !.res = r.offsets,
                               !.pre = r.rendered]
    /\ prev' = last
    /\ nops' = nops + 1
    /\ UNCHANGED <<typesShared, ilst>>

\* A udta box as parseTag leaves it in userDataBoxes: the k-th box found,
\* under depth - 1 containers, with the children given
FoundUdta(k, depth, children) ==
    [position |-> 10 * k, type |-> Udta, handler |-> None,
     parentTree |-> [i \in 1..depth |-> 10 * k - depth + i], children |-> children]

\* The children a udta box of a file may have: none, a meta box without an
\* ilst box, a meta box with one
UdtaContents ==
    { <<>>,
      <<FileBox(TRUE, Meta, <<FileBox(TRUE, Hdlr, <<>>)>>)>>,
      <<FileBox(TRUE, Meta, <<FileBox(TRUE, Hdlr, <<>>), FileBox(TRUE, Ilst, <<>>)>>)>> }

\* What parser.userDataBoxes may hold after parseTag: the parser tells a
\* udta box by the object of its type, so it finds none unless the decoded
\* headers carry the objects of Mpeg4BoxType; otherwise at most two boxes,
\* at the top level or below a moov box
UserDataBoxes(shared) ==
    IF ~shared THEN {<<>>}
    ELSE LET one(k) == {FoundUdta(k, d, c) : d \in {1, 2}, c \in UdtaContents}
         IN {<<>>} \cup {<<u>> : u \in one(1)} \cup {<<u, w>> : u \in one(1), w \in one(2)}

\* read() of a new Mpeg4File from the return of the parser to the making of
\* the tag: the udta boxes are taken over, a placeholder is added when there
\* is none, the udta box of the tag is chosen and the tag is made on it
Choose(found) ==
    /\ nops < MaxOps
    /\ LET boxes == IF Len(found) = 0 THEN <<IsoUserDataBox_fromEmpty>> ELSE found
       IN \E u \in findAppleTagUdta(boxes) :
            LET udtaBox == IF u = 0 THEN IsoUserDataBox_fromEmpty ELSE boxes[u]
                tag == AppleTag_new(udtaBox)
            IN /\ mfile' = [NewMpeg4File EXCEPT
                              !.udtaBoxes = IF u = 0 THEN boxes ELSE [boxes EXCEPT ![u] = tag.box],
                              !.tagTypesOnDisk = isAppleTagUdtaPresent(boxes),
                              !.appleTag = TRUE]
               /\ ilst' = tag.ilst
               /\ last' = [NoOp EXCEPT !.op = "choose", !.arg = found, !.res = u, !.pre = boxes]
    /\ prev' = last
    /\ nops' = nops + 1
    /\ UNCHANGED <<typesShared, mode, readStyle, fpc, ferr, session, opens>>

NextData ==
    \/ \E kind \in {"stco", "co64"}, entries \in Tables :
          ReadOffsets(kind, entries) /\ ParserIdle /\ FileIdle
    \/ \E kind \in {"stco", "co64"}, entries \in Tables, sizeDifference \in {-1, 2}, after \in {3, 6} :
          Adjust(kind, entries, sizeDifference, after) /\ ParserIdle /\ FileIdle
    \/ \E found \in UserDataBoxes(typesShared) : Choose(found) /\ ParserIdle

SpecData == InitData /\ [][NextData]_vars

----------------------------------------------------------------------------
(* Claims about the tag *)

\* C1: after a text field is set to a non-empty text, reading the field
\* returns that text (for a list field: the joined text split on ";", each
\* piece trimmed)
C1_SetThenReadReturnsText ==
    (/\ last.op = "get" /\ prev.op = "set"
     /\ last.f = prev.f /\ last.f \in TextFields
     /\ ~IsClearing(prev.f, prev.arg))
        => (last.ok /\ last.res = ExpectedAfterSet(last.f, prev.arg))

\* C2: reading a field that the ilst does not hold raises nothing and
\* returns the absent value of the field (undefined, the empty list, 0, false)
C2_AbsentReadReturnsAbsentValue ==
    (last.op = "get" /\ ~HasField(last.pre, last.f))
        => (last.ok /\ last.res = AbsentValue(last.f))

\* C3: after a text field is set to the empty text or to undefined, the ilst
\* holds no annotation of the field's type, and the other children are kept
\* in their order
C3_ClearRemovesEveryAnnotation ==
    (last.op = "set" /\ last.f \in TextFields /\ IsClearing(last.f, last.arg))
        => (/\ last.ok
            /\ ~HasField(ilst, last.f)
            /\ ilst = WithoutType(last.pre, FieldType(last.f)))

\* C4: a field that is absent, set to a value and then cleared, is absent
\* again, and isEmpty is what it was before the two assignments
C4_SetThenClearRestores ==
    (/\ last.op = "set" /\ prev.op = "set" /\ last.f = prev.f
     /\ last.f \in TextFields \cup NumberFields \cup DashFields
     /\ ~HasField(prev.pre, prev.f)
     /\ ~IsClearing(prev.f, prev.arg) /\ IsClearing(last.f, last.arg)
     /\ prev.ok /\ last.ok)
        => (~HasField(ilst, last.f) /\ isEmpty(ilst) = isEmpty(prev.pre))

----------------------------------------------------------------------------
(* Claims about the parser *)

\* C6: an exception raised while an entry point traverses the file does not
\* escape: the call has returned and the file is marked corrupt with the
\* message of that exception
C6_ExceptionMarksCorruptWithMessage ==
    thrown.def => (pc = "idle" /\ corrupt.is /\ corrupt.reason = thrown)

\* C7: every call of an entry point terminates, whatever headers the file
\* holds (boxes of size 0 and boxes smaller than their header included)
C7_EveryCallTerminates == (pc = "running") ~> (pc = "idle")

\* A call has run over a box of total size 0 and has returned
C7_Witness ==
    /\ pc = "idle" /\ ncalls > 0 /\ ~thrown.def
    /\ file[1].size = [kind |-> "large", n |-> 0]

\* C8: after any sequence of calls the fields depend only on the entry point
\* called last: the same entry point leaves the fields it left the first
\* time, and what only another entry point collects is not there
C8_StateDependsOnLastEntryPoint ==
    (pc = "idle" /\ entry # "none") =>
        /\ entry = first.entry => fields = first.fields
        /\ entry # "parseBoxHeaders" => ~fields.moov_tree.def /\ ~fields.udta_tree.def
        /\ entry \notin {"parseTag", "parseTagAndProperties"} => fields.udta_boxes = <<>>
        /\ entry # "parseTagAndProperties" => fields.mvhd_box = None /\ fields.stsd_boxes = <<>>
        /\ entry # "parseChunkOffsets" => fields.stco_boxes = <<>>

\* parseTag collected a udta box, then parseChunkOffsets collected a chunk
\* offset box and the udta box is gone
C8_Witness ==
    /\ pc = "idle" /\ ncalls = 2
    /\ first.entry = "parseTag" /\ first.fields.udta_boxes # <<>>
    /\ entry = "parseChunkOffsets" /\ fields.stco_boxes # <<>> /\ fields.udta_boxes = <<>>

----------------------------------------------------------------------------
(* Claims about the file *)

\* C5: after the album is assigned, the file saved and opened again, the
\* album read from the new file object is the assigned text and the mdat
\* range is the one before the assignment
C5_AlbumSurvivesSaveAndReopen ==
    (/\ session.saved /\ session.reopened /\ fpc = "done"
     /\ ~IsClearing("album", session.album))
        => (/\ FirstText(ilst, Alb).ok
            /\ FirstText(ilst, Alb).v = ExpectedAfterSet("album", session.album)
            /\ <<mfile.invariantStartPosition, mfile.invariantEndPosition>> = session.mdat)

\* C9: the parser constructor throws exactly when the first box is not
\* 'ftyp', and when it does not throw it has parsed nothing; an Mpeg4File
\* whose construction failed there holds no Apple tag, no properties and no
\* udta box
C9_ConstructionFailsWithoutFtyp ==
    /\ pc # "new" => (pc = "failed" <=> file[0].type # <<"f", "t", "y", "p">>)
    /\ (pc = "idle" /\ ncalls = 0) => (fields = NewFields /\ stack = <<>> /\ ~corrupt.is)
    /\ (fpc = "thrown" /\ pc = "failed") =>
           (~mfile.appleTag /\ ~mfile.properties /\ mfile.udtaBoxes = <<>> /\ ilst = <<>>)

\* The construction failed on a file that holds a udta box
C9_Witness ==
    /\ fpc = "thrown" /\ pc = "failed"
    /\ \E p \in 1..(FileLen - 1) : file[p].type = Udta.b

\* C10: the mode is Read while the body of read() runs and Closed once
\* read() has returned or thrown
C10_ModeClosedOnEveryExit ==
    /\ fpc \in {"done", "thrown"} => mode = "Closed"
    /\ fpc \in {"construct", "parse", "parsing", "tagged"} => mode = "Read"

\* read() has run to its end, properties included
C10_Witness == fpc = "done" /\ mfile.properties /\ mode = "Closed"

----------------------------------------------------------------------------
(* Claims about the box tree *)

\* The children of a box whose 4 type bytes are those of a type
WithBytes(children, type) == {k \in 1..Len(children) : children[k].type.b = type.b}

\* C11: after an AppleTag is constructed on a udta box, once or again, the
\* udta box has exactly one meta child and that meta box has exactly one
\* ilst child
C11_OneMetaOneIlst ==
    last.op = "tag" =>
        LET udta == mfile.udtaBoxes[1]
        IN /\ Cardinality(WithBytes(udta.children, Meta)) = 1
           /\ \A k \in WithBytes(udta.children, Meta) :
                 Cardinality(WithBytes(udta.children[k].children, Ilst)) = 1

\* C12: a lookup by type finds a box exactly when the 4 type bytes of the
\* box are the bytes of the canonical form of the type asked for, whichever
\* object carries them: the data boxes of the album atom are found with the
\* 3-byte id as with the 4-byte id
C12_LookupIsByteWise ==
    last.op = "boxes" =>
        (last.res.def <=> \E i \in 1..Len(last.pre) : last.pre[i].type.b = fixId(last.arg).b)

\* The data boxes the bytes of the ilst hold under a type: those of the
\* first annotation with the 4 type bytes
StoredBoxes(il, type) ==
    IF \E i \in 1..Len(il) : il[i].type.b = type.b
    THEN DataKids(il[CHOOSE i \in 1..Len(il) :
                        il[i].type.b = type.b /\ \A j \in 1..(i - 1) : il[j].type.b # type.b].kids)
    ELSE <<>>

\* The 16-bit field at byte offset `at` of the trkn payload the ilst holds, 0
\* when it holds none
StoredPairField(il, at) ==
    LET boxes == StoredBoxes(il, Trkn)
    IN IF boxes # <<>> /\ boxes[1].data.def /\ Len(boxes[1].data.v) >= at + 2
       THEN toUint(subarray(boxes[1].data.v, at, 2)) ELSE 0

\* The pair the contract has after track or trackCount was assigned
PairAfter(op) ==
    [track |-> IF op.f = "track" THEN op.arg ELSE StoredPairField(op.pre, 2),
     count |-> IF op.f = "trackCount" THEN op.arg ELSE StoredPairField(op.pre, 4)]

\* C13: after track or trackCount is assigned and one of the two values is
\* not 0, the trkn payload is {0, track, trackCount, 0} with flags
\* ContainsData, the readers return the two values, and the value that was
\* not assigned is the one from before
C13_TrackPairPayload ==
    (/\ last.op = "set" /\ last.f \in {"track", "trackCount"}
     /\ (PairAfter(last).track # 0 \/ PairAfter(last).count # 0))
        => /\ last.ok
           /\ StoredBoxes(ilst, Trkn) # <<>>
           /\ StoredBoxes(ilst, Trkn)[1].flags = ContainsData
           /\ StoredBoxes(ilst, Trkn)[1].data = Val(PairData(PairAfter(last).track, PairAfter(last).count))
           /\ track(ilst) = Ok(PairAfter(last).track)
           /\ trackCount(ilst) = Ok(PairAfter(last).count)

\* C14: track and trackCount read 0 from a tag without a trkn atom, and
\* after either is assigned the ilst holds a trkn annotation exactly when
\* one of the two values is not 0
C14_PairAbsentIsZero ==
    /\ (last.op = "get" /\ last.f \in {"track", "trackCount"} /\ ~HasField(last.pre, last.f))
          => (last.ok /\ last.res = 0)
    /\ (last.op = "set" /\ last.f \in {"track", "trackCount"})
          => /\ last.ok
             /\ HasField(ilst, last.f) <=> (PairAfter(last).track # 0 \/ PairAfter(last).count # 0)

\* The place of the first annotation of the ilst that holds the dash field
DashAt(il) ==
    CHOOSE i \in 1..Len(il) :
        HoldsDash(il[i], ITunes, TrackIdName) /\ \A j \in 1..(i - 1) : ~HoldsDash(il[j], ITunes, TrackIdName)

\* The data boxes of an annotation, taken by their type bytes
DataOf(box) ==
    LET F[i \in 0..Len(box.kids)] ==
            IF i = 0 THEN <<>>
            ELSE IF box.kids[i].type.b = Data.b THEN Append(F[i - 1], box.kids[i]) ELSE F[i - 1]
    IN F[Len(box.kids)]

\* C15: when the ilst holds a ---- annotation with the mean and, up to
\* letter case, the name of the field: reading the field returns the text of
\* its data box, assigning the empty text removes the annotation, and
\* assigning another text overwrites the data box and adds no annotation
C15_DashMatchIgnoresCase ==
    (/\ last.f \in DashFields /\ last.op \in {"get", "set"}
     /\ HasField(last.pre, last.f)
     /\ \A i \in 1..Len(last.pre) : i # DashAt(last.pre) => ~HoldsDash(last.pre[i], ITunes, TrackIdName))
        => /\ last.ok
           /\ last.op = "get" => last.res = DataOf(last.pre[DashAt(last.pre)])[1].data
           /\ (last.op = "set" /\ last.arg = <<>>) => ilst = splice1(last.pre, DashAt(last.pre))
           /\ (last.op = "set" /\ last.arg # <<>>) =>
                 /\ Len(ilst) = Len(last.pre)
                 /\ DataOf(ilst[DashAt(last.pre)])[1].data = Val(last.arg)

\* The annotations of the ilst that hold the dash field
Holders(il) == {i \in 1..Len(il) : HoldsDash(il[i], ITunes, TrackIdName)}

\* C16: after assignments to a dash field of a tag that did not hold it, the
\* ilst holds one ---- annotation for it, with children mean, name, data and
\* the assigned text under flags ContainsText, when the last value is not
\* empty, and none when it is empty; the empty value assigned to a tag
\* without the atom leaves the ilst as it was
C16_OneDashAnnotation ==
    (/\ last.op = "set" /\ last.f \in DashFields
     /\ \/ ~HasField(last.pre, last.f)
        \/ prev.op = "set" /\ prev.f = last.f /\ ~HasField(prev.pre, prev.f))
        => /\ last.ok
           /\ Cardinality(Holders(ilst)) = IF last.arg # <<>> THEN 1 ELSE 0
           /\ last.arg # <<>> =>
                 \A i \in Holders(ilst) :
                    /\ [k \in 1..Len(ilst[i].kids) |-> ilst[i].kids[k].type.b] = <<Mean.b, Name.b, Data.b>>
                    /\ ilst[i].kids[3].flags = ContainsText
                    /\ ilst[i].kids[3].data = Val(last.arg)
           /\ (last.arg = <<>> /\ ~HasField(last.pre, last.f)) => ilst = last.pre

\* The annotations of the ilst that hold the artist id
ArtistHolders(il) == {i \in 1..Len(il) : HoldsDash(il[i], ITunes, ArtistIdName)}

\* Whether every part of a list of strings is non-empty
AllParts(parts) == \A k \in 1..Len(parts) : parts[k] # <<>>

\* C17: after musicBrainzArtistId is assigned a string of n >= 1 non-empty
\* parts joined by "/", reading it returns the string, and the ilst holds
\* the ---- annotation of the field once, with n data boxes that carry the
\* parts in order
C17_ArtistIdsJoinAndSplit ==
    (/\ last.op = "set" /\ last.f \in DashListFields
     /\ AllParts(Split(last.arg, "/")))
        => /\ last.ok
           /\ musicBrainzArtistId(ilst) = Ok(Val(last.arg))
           /\ Cardinality(ArtistHolders(ilst)) = 1
           /\ \A i \in ArtistHolders(ilst) :
                 [k \in 1..Len(DataOf(ilst[i])) |-> DataOf(ilst[i])[k].data]
                    = [k \in 1..Len(Split(last.arg, "/")) |-> Val(Split(last.arg, "/")[k])]

\* What the contract reads as genres from the bytes of an ilst: the text of
\* the (c)gen atom when it is there, else the genre the gnre atom names
GenresOf(il) ==
    IF StoredBoxes(il, Gen) # <<>>
    THEN TrimAll(Split(StoredBoxes(il, Gen)[1].data.v, ";"))
    ELSE IF StoredBoxes(il, Gnre) # <<>> /\ toUint(StoredBoxes(il, Gnre)[1].data.v) # 0
    THEN <<Genres_indexToAudio(toUint(StoredBoxes(il, Gnre)[1].data.v) - 1).v>>
    ELSE <<>>

\* C18: reading genres returns the text of the (c)gen atom, else the ID3v1
\* genre the gnre atom names, else nothing; after a non-empty list is
\* assigned the ilst holds no gnre annotation, the (c)gen atom holds the
\* list joined by "; " and reading genres returns the list
C18_GenreTextThenIndex ==
    /\ (last.op = "get" /\ last.f = "genres") => (last.ok /\ last.res = GenresOf(last.pre))
    /\ (last.op = "set" /\ last.f = "genres" /\ last.arg.def) =>
          /\ last.ok
          /\ \A i \in 1..Len(ilst) : ilst[i].type.b # Gnre.b
          /\ StoredBoxes(ilst, Gen) # <<>>
          /\ StoredBoxes(ilst, Gen)[1].data = Val(Join(last.arg.v))
          /\ genres(ilst) = Ok(last.arg.v)

\* The year the contract reads from the bytes of an ilst: the first 4
\* characters of the (c)day text as a decimal number, 0 without the atom or
\* without a number
YearOf(il) ==
    IF StoredBoxes(il, Day) # <<>> /\ StoredBoxes(il, Day)[1].data.def
    THEN LET text == StoredBoxes(il, Day)[1].data.v
             four == IF Len(text) > 4 THEN SubSeq(text, 1, 4) ELSE text
         IN IF ParseInt(four).nan THEN 0 ELSE ParseInt(four).n
    ELSE 0

\* C19: year reads the first 4 characters of the (c)day text as decimal, 0
\* when there is no atom or no number; assigning 0 removes the atom; after a
\* year of 1..9999 is assigned the atom holds its decimal form and year
\* reads it back
C19_YearRoundTrip ==
    /\ (last.op = "get" /\ last.f = "year") => (last.ok /\ last.res = YearOf(last.pre))
    /\ (last.op = "set" /\ last.f = "year" /\ last.arg = 0) =>
          (last.ok /\ \A i \in 1..Len(ilst) : ilst[i].type.b # Day.b)
    /\ (last.op = "set" /\ last.f = "year" /\ last.arg \in 1..9999) =>
          /\ last.ok
          /\ StoredBoxes(ilst, Day) # <<>>
          /\ StoredBoxes(ilst, Day)[1].data = Val(ToDecimal(last.arg))
          /\ year(ilst) = Ok(last.arg)

\* The shape of a box tree: the type, version, flags and data of every box,
\* and its children in their order
RECURSIVE Shape(_)
Shape(box) ==
    [type |-> box.type.b, version |-> box.version, flags |-> box.flags, data |-> box.data,
     children |-> [i \in 1..Len(box.children) |-> Shape(box.children[i])]]

\* C20: a box tree read from a valid file, rendered and read again from the
\* rendered bytes has the same shape: the same types in the same order at
\* every level, the same version and flags, the same data in every leaf
C20_RenderRoundTrip ==
    last.op = "render" => Shape(last.res) = Shape(last.arg)

----------------------------------------------------------------------------
(* Claims about the boxes that hold numbers and sizes *)

\* C21: after the adjustment of a chunk-offset box by sizeDifference with
\* the threshold after, the table has as many entries as the table of the
\* file, an entry that was at or above the threshold is not below its
\* original, and an entry below the threshold is the original
C21_OffsetsShiftAboveThreshold ==
    last.op = "adjust" =>
        /\ Len(last.res) = Len(last.arg.entries)
        /\ \A i \in 1..Len(last.arg.entries) :
              i <= Len(last.res) =>
                 IF last.arg.entries[i] >= last.arg.after
                 THEN last.res[i] >= last.arg.entries[i]
                 ELSE last.res[i] = last.arg.entries[i]

\* Whether a box of the list has an ilst box in its subtree, by the bytes of
\* the types
RECURSIVE HasIlst(_)
HasIlst(children) ==
    \E k \in 1..Len(children) :
        children[k].type.b = Ilst.b \/ HasIlst(children[k].children)

\* C22: after the udta boxes of the parser are taken over, the collection of
\* the file is not empty, and when a box found has an ilst box in its
\* subtree the tag is on one that has, whose parentTree is no longer than
\* that of any other box found with an ilst box
C22_ShallowestUdtaWithIlst ==
    last.op = "choose" =>
        /\ Len(mfile.udtaBoxes) >= 1
        /\ (\E k \in 1..Len(last.arg) : HasIlst(last.arg[k].children)) =>
              /\ last.res # 0
              /\ HasIlst(last.pre[last.res].children)
              /\ \A j \in 1..Len(last.pre) :
                    HasIlst(last.pre[j].children) =>
                       Len(last.pre[last.res].parentTree) <= Len(last.pre[j].parentTree)

\* Two udta boxes with an ilst box were found, the first deeper than the
\* second, and the tag is on the second
C22_Witness ==
    /\ last.op = "choose"
    /\ Len(last.arg) = 2
    /\ HasIlst(last.arg[1].children) /\ HasIlst(last.arg[2].children)
    /\ Len(last.arg[1].parentTree) > Len(last.arg[2].parentTree)
    /\ last.res = 2

\* C27: the box read from a chunk-offset table exposes the entries of the
\* table, as many as the count says and in their order, and its data is the
\* count followed by the entries
C27_OffsetsAsCounted ==
    last.op = "offsets" =>
        /\ last.res = last.arg
        /\ last.pre = TableBytes(last.f, last.arg)

----------------------------------------------------------------------------
(* Claims about the traversals of the parser *)

\* The parent trees of the udta boxes of a file, in file order: the
\* positions of the headers of the enclosing moov, trak, mdia, minf and stbl
\* boxes, then the position of the udta box; what another box holds is not
\* looked at
RECURSIVE UdtaTrees(_, _, _, _)
UdtaTrees(f, position, end, parents) ==
    IF position >= end \/ position >= FileLength(f) THEN <<>>
    ELSE LET size == f[position].size.n
             type == f[position].type
             rest == IF size = 0 THEN <<>> ELSE UdtaTrees(f, position + size, end, parents)
         IN IF type \in {Moov.b, Trak.b, Mdia.b, Minf.b, Stbl.b}
            THEN UdtaTrees(f, position + 1, position + size, Append(parents, position)) \o rest
            ELSE IF type = Udta.b THEN <<Append(parents, position)>> \o rest
            ELSE rest

\* A call of the entry point e has returned without an exception
Returned(e) == pc = "idle" /\ entry = e /\ ~thrown.def

\* C23: after parseTag, userDataBoxes holds one box for every udta box at
\* the top level or below moov, trak, mdia, minf and stbl boxes only, in
\* file order, each with the parentTree of its enclosing containers and
\* itself
C23_EveryUdtaWithItsParents ==
    Returned("parseTag") =>
        [k \in 1..Len(fields.udta_boxes) |-> fields.udta_boxes[k].parentTree]
            = UdtaTrees(file, 1, FileLength(file), <<>>)

\* The stsd, mvhd and udta boxes of the range in traversal order, each with
\* the hdlr box that applies to it: the last one before it at its own
\* level, or else the one that applies to the enclosing container
RECURSIVE Handled(_, _, _, _)
Handled(f, position, end, handler) ==
    IF position >= end \/ position >= FileLength(f) THEN <<>>
    ELSE LET size == f[position].size.n
             type == f[position].type
             here == IF type = Hdlr.b THEN position ELSE handler
             rest == IF size = 0 THEN <<>> ELSE Handled(f, position + size, end, here)
         IN IF type \in {Moov.b, Trak.b, Mdia.b, Minf.b, Stbl.b}
            THEN Handled(f, position + 1, position + size, handler) \o rest
            ELSE IF type \in {Stsd.b, Mvhd.b, Udta.b}
            THEN <<[position |-> position, handler |-> handler]>> \o rest
            ELSE rest

\* The handler the claim gives the box at the position
HandlerFor(position) ==
    LET all == Handled(file, 1, FileLength(file), None)
    IN { all[k].handler : k \in { i \in 1..Len(all) : all[i].position = position } }

\* C25: in parseTagAndProperties every stsd, mvhd or udta box is created
\* with the handler of the most recent hdlr box before it at its own or an
\* enclosing level, and with none when there is no such box; a hdlr box
\* inside a container is not the handler of a box outside it
C25_HandlerOfEnclosingLevels ==
    entry = "parseTagAndProperties" =>
        /\ \A k \in 1..Len(fields.stsd_boxes) :
               HandlerFor(fields.stsd_boxes[k].position) = {fields.stsd_boxes[k].handler}
        /\ \A k \in 1..Len(fields.udta_boxes) :
               HandlerFor(fields.udta_boxes[k].position) = {fields.udta_boxes[k].handler}
        /\ fields.mvhd_box # None => HandlerFor(fields.mvhd_box) = {fields.mvhd_handler}

\* A track without a hdlr box after a track with one: its stsd box has no
\* handler; and a stsd box after a hdlr box of its own level has that one
C25_Witness ==
    /\ Returned("parseTagAndProperties")
    /\ Len(fields.stsd_boxes) = 1
    /\ \E p \in DOMAIN file : p < fields.stsd_boxes[1].position /\ file[p].type = Hdlr.b
    /\ fields.stsd_boxes[1].handler = None

C25_WitnessInherited ==
    /\ Returned("parseTagAndProperties")
    /\ Len(fields.stsd_boxes) = 1
    /\ fields.stsd_boxes[1].handler # None

\* The first moov box and the first udta box of the range below moov,
\* trak, mdia, minf and stbl boxes, each as its chain of parents
RECURSIVE MoovTrees(_, _, _, _)
MoovTrees(f, position, end, parents) ==
    IF position >= end \/ position >= FileLength(f) THEN <<>>
    ELSE LET size == f[position].size.n
             type == f[position].type
             rest == IF size = 0 THEN <<>> ELSE MoovTrees(f, position + size, end, parents)
         IN IF type \in {Moov.b, Trak.b, Mdia.b, Minf.b, Stbl.b}
            THEN (IF type = Moov.b THEN <<Append(parents, position)>> ELSE <<>>)
                 \o MoovTrees(f, position + 1, position + size, Append(parents, position)) \o rest
            ELSE rest

FirstOf(trees) == IF trees = <<>> THEN Undefined ELSE Val(trees[1])

\* C26: after parseBoxHeaders, moovTree is the chain to the first moov box
\* and udtaTree the chain to the first udta box reachable through moov,
\* trak, mdia, minf and stbl boxes; each is undefined only when the file
\* has no such box
C26_ChainsToFirstMoovAndUdta ==
    Returned("parseBoxHeaders") =>
        /\ fields.moov_tree = FirstOf(MoovTrees(file, 1, FileLength(file), <<>>))
        /\ fields.udta_tree = FirstOf(UdtaTrees(file, 1, FileLength(file), <<>>))

\* The first position after the box, by the header read at its position
EndOf(box) ==
    box.position + Mpeg4BoxHeader_fromFileAndPosition(file, typesShared, box.position).totalBoxSize

\* Every box loaded below the box ends where its parent ends or before, and
\* none of them has a size field of 0
RECURSIVE Contained(_)
Contained(box) ==
    \A k \in 1..Len(box.children) :
        LET child == box.children[k]
        IN /\ EndOf(child) <= EndOf(box)
           /\ file[child.position].size.kind # "eof"
           /\ Contained(child)

\* C28: a box that loadChildren produced ends within its parent, whatever
\* size the child declares, and a child that declares the size 0 ends the
\* loop without being among the children
C28_ChildrenWithinParent ==
    \A k \in 1..Len(fields.udta_boxes) : Contained(fields.udta_boxes[k])

----------------------------------------------------------------------------
(* Claims about padding, the repair of a meta box and the properties       *)

\* The box is one whose render adds a free box
Padded(box) ==
    (\E i \in 1..Len(box.children) : box.children[i].cls = "free") \/ SameObject(box.type, Meta)

\* The box has room for a free box after what its children render to
HasRoom(box) == box.dataSize # 0 /\ box.dataSize - Len(renderChildren(box.children)) >= 8

\* Every box of the tree that adds a free box renders to the size it had
\* when it has room, and otherwise to its content and 2048 bytes more
RECURSIVE PaddingAbsorbs(_)
PaddingAbsorbs(box) ==
    /\ Padded(box) =>
           Len(render(box)) = 8 + (IF HasRoom(box) THEN box.dataSize
                                   ELSE Len(renderChildren(box.children)) + 2048)
    /\ \A i \in 1..Len(box.children) : PaddingAbsorbs(box.children[i])

\* C29: a box that is a meta box or has a free child renders to the total
\* size it had when its data size is not 0 and exceeds the new content by
\* 8 bytes or more, and otherwise gets a free box of 2048 bytes;
\* IsoFreeSpaceBox.fromPadding(n) renders to n bytes
C29_PaddingKeepsTheSize ==
    last.op = "render" =>
        /\ PaddingAbsorbs(last.arg)
        /\ \A n \in {8, 17, 2048} : Len(IsoFreeSpaceBox_fromPadding(n)) = n

\* The meta boxes below the udta box the tag was made on
MetaBoxesOf(box) == {i \in 1..Len(box.children) : box.children[i].type.b = Meta.b}

\* The box has a hdlr child; one that the tag made has the handler type mdir
HasHandler(meta_box) ==
    \E i \in 1..Len(meta_box.children) :
        LET h == meta_box.children[i]
        IN /\ h.type.b = Hdlr.b
           /\ h.position = None => h.handlerType = <<"m", "d", "i", "r">>

\* C24: once a tag has been written to, the meta box it was made on has a
\* hdlr child, inserted with handler type mdir when the file had none; the
\* meta box a tag creates has it from the start
C24_MetaHasHandlerOnceWritten ==
    mfile.appleTag /\ last.op = "set" =>
        \A i \in MetaBoxesOf(mfile.udtaBoxes[1]) : HasHandler(mfile.udtaBoxes[1].children[i])

\* C30: constructing an Mpeg4File reads the properties exactly when the
\* read style has the Average bit: with the bit and a movie header box in
\* the file the properties are defined once read() is done; without the bit
\* read() does not fail with 'mvhd box not found.' and leaves the
\* properties undefined
C30_PropertiesWithAverageBit ==
    /\ fpc = "done" /\ readStyle.average /\ file[1].type = Mvhd.b => mfile.properties
    /\ ~readStyle.average => ferr # Val("mvhd box not found.") /\ ~mfile.properties

====
